---------------------------- MODULE Spec2Model ----------------------------
(***************************************************************************)
(* A model of Heimer's Edge scene item (src/src/view/scene_items/edge.cpp): *)
(* line construction between two nodes, arrowhead wings, label visibility   *)
(* state machine with its hide timer, and the per-endpoint pulse            *)
(* animations.                                                              *)
(*                                                                         *)
(* Lengths are fixed-point integers, 1 unit = 0.1 scene pixel.  Unit        *)
(* vectors and the trigonometric constants are scaled by Milli (1000).      *)
(***************************************************************************)
EXTENDS Integers, Sequences, FiniteSets, TLC

\* ------------------------------------------------------------------------
\* Bounds of the model
\* ------------------------------------------------------------------------

\* Longest label text the user types (texts are prefixes of "abcd...").
MaxTextLen == 4
\* Node centres lie on a grid: the source in row 0, columns 0..MaxSourceCol,
\* the target in rows 0..MaxRow, columns MaxSourceCol+1..MaxTargetCol.
MaxSourceCol == 1
MaxTargetCol == 3
MaxRow == 1

\* ------------------------------------------------------------------------
\* Fixed-point arithmetic
\* ------------------------------------------------------------------------

Milli == 1000

Abs(a) == IF a < 0 THEN -a ELSE a

\* C++ division of doubles kept to the model's resolution: truncation
\* towards zero, symmetric in the sign.
SDiv(a, b) == IF a >= 0 THEN a \div b ELSE -((-a) \div b)

RECURSIVE ISqrtIter(_, _, _)
ISqrtIter(n, lo, hi) ==
    IF lo >= hi THEN lo
    ELSE LET mid == (lo + hi + 1) \div 2
         IN IF mid * mid <= n THEN ISqrtIter(n, mid, hi)
                              ELSE ISqrtIter(n, lo, mid - 1)

\* floor(sqrt(n)) for 0 <= n < 2^30
ISqrt(n) == ISqrtIter(n, 0, 32767)

Pt(x, y) == [x |-> x, y |-> y]
PAdd(p, q) == Pt(p.x + q.x, p.y + q.y)
PSub(p, q) == Pt(p.x - q.x, p.y - q.y)
PNeg(p) == Pt(-p.x, -p.y)
Origin == Pt(0, 0)

\* QVector2D::normalize(): a null vector stays null, any other vector is
\* scaled to length 1 (here: Milli).
Normalized(v) ==
    IF v.x = 0 /\ v.y = 0 THEN Origin
    ELSE LET len10 == ISqrt((v.x * v.x + v.y * v.y) * 100)
         IN Pt(SDiv(v.x * 10 * Milli, len10), SDiv(v.y * 10 * Milli, len10))

\* direction (scaled by Milli) times a length, back in length units
Scaled(dir, len) == Pt(SDiv(dir.x * len, Milli), SDiv(dir.y * len, Milli))


\* ------------------------------------------------------------------------
\* Nodes (the Node class is consumed by the edge; its geometry is modelled
\* from the specification's data model: position, bounding box, corner
\* radius and the nearest-boundary-point query)
\* ------------------------------------------------------------------------

\* Distance between two neighbouring grid positions of a node centre.
GridStep == 200
\* Half of a node's width and height.
NodeHalf == 100
\* Corner radius of a rounded node.
RoundedRadius == 50

GridPos(col, row) == Pt(col * GridStep, row * GridStep)
SourcePositions == { GridPos(c, 0) : c \in 0..MaxSourceCol }
TargetPositions ==
    { GridPos(c, r) : c \in (MaxSourceCol + 1)..MaxTargetCol, r \in 0..MaxRow }
CornerRadii == {0, RoundedRadius}

Rect(left, top, width, height) ==
    [left |-> left, top |-> top, width |-> width, height |-> height]

\* QRectF::intersects(): the interiors overlap; an empty rectangle and
\* rectangles that only touch do not intersect.
Intersects(a, b) ==
    /\ a.width > 0 /\ a.height > 0 /\ b.width > 0 /\ b.height > 0
    /\ a.left < b.left + b.width
    /\ b.left < a.left + a.width
    /\ a.top < b.top + b.height
    /\ b.top < a.top + a.height

\* Node::sceneBoundingRect()
NodeSceneBoundingRect(node) ==
    Rect(node.pos.x - NodeHalf, node.pos.y - NodeHalf, 2 * NodeHalf, 2 * NodeHalf)

\* The candidate anchors of a node, relative to its centre: the four side
\* midpoints and the four corners.  A corner anchor is a corner (isCorner)
\* only on a rounded node.
EdgePoint(x, y, corner) == [location |-> Pt(x, y), isCorner |-> corner]
EdgePoints(node) ==
    LET h == NodeHalf
        c == node.cornerRadius > 0
    IN << EdgePoint(h, 0, FALSE), EdgePoint(0, h, FALSE),
          EdgePoint(-h, 0, FALSE), EdgePoint(0, -h, FALSE),
          EdgePoint(h, h, c), EdgePoint(-h, h, c),
          EdgePoint(-h, -h, c), EdgePoint(h, -h, c) >>

Dist2(p, q) == (p.x - q.x) * (p.x - q.x) + (p.y - q.y) * (p.y - q.y)

\* The anchor of `node` nearest to the centre of `other`: a scan over the
\* anchors that keeps the first one at the least distance.
RECURSIVE NearestFrom(_, _, _, _, _)
NearestFrom(pts, origin, centre, best, i) ==
    IF i > Len(pts) THEN best
    ELSE IF Dist2(PAdd(pts[i].location, origin), centre)
              < Dist2(PAdd(best.location, origin), centre)
         THEN NearestFrom(pts, origin, centre, pts[i], i + 1)
         ELSE NearestFrom(pts, origin, centre, best, i + 1)

NearestEdgePoint(node, other) ==
    LET pts == EdgePoints(node)
    IN NearestFrom(pts, node.pos, other.pos, pts[1], 2)

\* Node::getNearestEdgePoints(source, target)
GetNearestEdgePoints(source, target) ==
    [first |-> NearestEdgePoint(source, target),
     second |-> NearestEdgePoint(target, source)]

\* ------------------------------------------------------------------------
\* Label texts and boxes (EdgeTextEdit is consumed by the edge: text,
\* bounding box, visibility, focus)
\* ------------------------------------------------------------------------

Alphabet == << "a", "b", "c", "d", "e", "f", "g", "h" >>
TextOfLen(n) == SubSeq(Alphabet, 1, n)
\* The texts of the model: the empty text and the texts of even length.
Texts == { TextOfLen(n) : n \in { k \in 0..MaxTextLen : k % 2 = 0 } }
EmptyText == << >>
\* tr("...")
DummyText == << ".", ".", "." >>

\* Width of a label box: a margin plus a fixed advance per character.
LabelMargin == 40
CharWidth == 40
LabelHeight == 100
TextBoundingRect(text) ==
    Rect(0, 0, LabelMargin + CharWidth * Len(text), LabelHeight)

\* QGraphicsItem::sceneBoundingRect() of a label placed at item.pos
LabelSceneBoundingRect(item) ==
    LET b == TextBoundingRect(item.text)
    IN Rect(item.pos.x + b.left, item.pos.y + b.top, b.width, b.height)


\* ------------------------------------------------------------------------
\* State of one Edge
\* ------------------------------------------------------------------------

VARIABLES
    testMode,                     \* TestMode::enabled()
    m_enableAnimations,
    m_enableLabel,
    m_sourceNode,                 \* [pos, cornerRadius, graphicsEdges] of the source node
    m_targetNode,                 \* [pos, cornerRadius, graphicsEdges] of the target node
    m_edgeModel,                  \* [reversed, arrowMode, arrowSize, edgeWidth, dashedLine, text]
    m_line,                       \* [p1, p2, pen]
    m_arrowheadBeginLeft,         \* [p1, p2, visible, pen]
    m_arrowheadBeginRight,
    m_arrowheadEndLeft,
    m_arrowheadEndRight,
    m_label,                      \* [text, pos, visible, parentIsEdge, inScene, hasFocus] or Null
    m_dummyLabel,                 \* [text, pos, visible] or Null
    inScene,                      \* scene() of the edge is set
    m_labelVisibilityTimer,       \* the single-shot timer is pending
    m_sourceDotSizeAnimation,     \* the animation is running
    m_targetDotSizeAnimation,
    m_previousRelativeSourcePos,
    m_previousRelativeTargetPos,
    m_sourceDot,                  \* position of the dot, or Null
    m_targetDot,
    lifecycle,                    \* "alive", "destroyed" (after ~Edge) or
                                  \* "crashed" (a null pointer was used)
    last,                         \* history: the routine that ran last, its
                                  \* arguments and the animations it started
    m_size,                       \* Grid: the grid size
    m_lines,                      \* Grid: the lines of the last calculateLines
    gridPc,                       \* Grid: where calculateLines stands: "idle",
                                  \* "vertical" or "horizontal"
    gridRect,                     \* Grid: the sceneRect of calculateLines
    gridX,                        \* Grid: the local x, then y, of calculateLines
    gridLast,                     \* Grid history: the routine that ran last,
                                  \* its argument and what it returned
    m_mindMapData,                \* Serializer: the graph of the mind map, a
                                  \* function from node index to node
    document,                     \* the QDomDocument of the last toXml, or one
                                  \* from elsewhere
    data                          \* the graph of the last fromXml, or Null

configVars == << testMode, m_enableAnimations, m_enableLabel >>
nodeVars == << m_sourceNode, m_targetNode >>
arrowVars == << m_arrowheadBeginLeft, m_arrowheadBeginRight,
                m_arrowheadEndLeft, m_arrowheadEndRight >>
labelVars == << m_label, m_dummyLabel >>
dotVars == << m_sourceDotSizeAnimation, m_targetDotSizeAnimation,
              m_previousRelativeSourcePos, m_previousRelativeTargetPos,
              m_sourceDot, m_targetDot >>
edgeVars == << configVars, nodeVars, m_edgeModel, m_line, arrowVars, labelVars,
               inScene, m_labelVisibilityTimer, dotVars, lifecycle, last >>
gridVars == << m_size, m_lines, gridPc, gridRect, gridX, gridLast >>
serializerVars == << m_mindMapData, document, data >>
\* The state of the Grid and of the Serializer, which no operation of the
\* Edge touches.
restVars == << gridVars, serializerVars >>
vars == << edgeVars, gridVars, serializerVars >>

Null == "null"

ArrowModes == { "Single", "Double", "Hidden" }
\* EdgeTextEdit::VisibilityChangeReason
Reasons == { "AvailableSpaceChanged", "Explicit", "Focused", "Timeout" }
\* The reason setLabelVisible() takes when the caller gives none.
DefaultReason == "Explicit"

\* EdgeModel::Style's own defaults
DefaultEdgeWidth == 50
DefaultArrowSize == 200

QLineF(p1, p2) == [p1 |-> p1, p2 |-> p2]

\* Values the style setters are called with.
EdgeWidths == { 10, 50, 200 }
ArrowSizes == { 100, 200 }

\* ------------------------------------------------------------------------
\* Pens
\* ------------------------------------------------------------------------

\* Edge::buildPen(ignoreDashSetting)
buildPen(model, ignoreDashSetting) ==
    [width |-> model.edgeWidth,
     dashed |-> (~ignoreDashSetting /\ model.dashedLine)]

\* QPen(): the pen of a freshly created line item
DefaultPen == [width |-> 10, dashed |-> FALSE]

\* ------------------------------------------------------------------------
\* Line construction
\* ------------------------------------------------------------------------

\* Scale factors of Edge::updateLine, in tenths.
WidthScaleTenths == 5
CornerRadiusScaleTenths == 3

\* A faulty corner offset that is applied at every anchor, corner or not: the
\* property of the corner offset must tell it from the real one.
CornerOffsetAnyAnchor(edgePoint, direction, node) ==
    LET v == Scaled(direction, node.cornerRadius)
    IN Pt(SDiv(v.x * CornerRadiusScaleTenths, 10),
          SDiv(v.y * CornerRadiusScaleTenths, 10))

\* A faulty corner offset that pushes a corner anchor away from the centre of
\* its node: the property of the direction of the offset must tell it from
\* the real one.
CornerOffsetOutward(edgePoint, direction, node) ==
    IF edgePoint.isCorner
    THEN LET v == Scaled(PNeg(direction), node.cornerRadius)
         IN Pt(SDiv(v.x * CornerRadiusScaleTenths, 10),
               SDiv(v.y * CornerRadiusScaleTenths, 10))
    ELSE Origin

\* cornerRadiusScale * (direction * cornerRadius)
CornerOffset(edgePoint, direction, node) ==
    IF edgePoint.isCorner
    THEN LET v == Scaled(direction, node.cornerRadius)
         IN Pt(SDiv(v.x * CornerRadiusScaleTenths, 10),
               SDiv(v.y * CornerRadiusScaleTenths, 10))
    ELSE Origin

\* A faulty width offset that forgets widthScale and shrinks the line by the
\* whole width: the property of the shrink must tell it from the real one.
WidthOffsetUnscaled(direction, edgeWidth) == Scaled(direction, edgeWidth)

\* (direction2 * edgeWidth) * widthScale
WidthOffset(direction, edgeWidth) ==
    LET v == Scaled(direction, edgeWidth)
    IN Pt(SDiv(v.x * WidthScaleTenths, 10), SDiv(v.y * WidthScaleTenths, 10))

\* The QLineF that Edge::updateLine gives m_line.
LineBetween(source, target, edgeWidth) ==
    LET nearestPoints == GetNearestEdgePoints(source, target)
        p1 == PAdd(nearestPoints.first.location, source.pos)
        direction1 == Normalized(PSub(source.pos, p1))
        p2 == PAdd(nearestPoints.second.location, target.pos)
        direction2 == Normalized(PSub(target.pos, p2))
    IN QLineF(PAdd(p1, CornerOffset(nearestPoints.first, direction1, source)),
              PSub(PAdd(p2, CornerOffset(nearestPoints.second, direction2, target)),
                   WidthOffset(direction2, edgeWidth)))

ComputeLine(source, target, model) == LineBetween(source, target, model.edgeWidth)

\* ------------------------------------------------------------------------
\* Arrowheads
\* ------------------------------------------------------------------------

\* cos and sin of arrowOpening = 150 degrees, scaled by Milli
Cos150 == -866
Sin150 == 500

\* (cos(-angle), sin(-angle)) of QLineF::angle(), scaled by Milli; a line of
\* length zero has angle 0.
AngleDirection(line) ==
    LET v == PSub(line.p2, line.p1)
    IN IF v = Origin THEN Pt(Milli, 0) ELSE Normalized(v)

LineDirection(line) == AngleDirection(line)

\* (cos(a + s * 150), sin(a + s * 150)) for the direction (cos a, sin a),
\* s = 1 or -1
Opened(d, s) ==
    Pt(SDiv(d.x * Cos150 - s * d.y * Sin150, Milli),
       SDiv(d.y * Cos150 + s * d.x * Sin150, Milli))

\* One wing: from `point`, arrowSize long, at angle a + s * 150
WingLine(point, d, s, arrowSize) ==
    QLineF(point, PAdd(point, Scaled(Opened(d, s), arrowSize)))

\* A faulty pointBegin that takes the other end of the line: the property of
\* the winged end must tell it from the real one.
PointBeginSwapped(line, reversedEdge) == IF reversedEdge THEN line.p2 ELSE line.p1

\* pointBegin and angleBegin of updateSingleArrowhead and updateDoubleArrowhead
PointBegin(line, reversedEdge) == IF reversedEdge THEN line.p1 ELSE line.p2
AngleBegin(line, reversedEdge) ==
    IF reversedEdge THEN PNeg(LineDirection(line)) ELSE LineDirection(line)

\* pointEnd and angleEnd of updateDoubleArrowhead
PointEnd(line, reversedEdge) == IF reversedEdge THEN line.p2 ELSE line.p1
AngleEnd(line, reversedEdge) ==
    IF reversedEdge THEN LineDirection(line) ELSE PNeg(LineDirection(line))

\* lineBeginLeft (s = 1) and lineBeginRight (s = -1)
LineBegin(line, reversedEdge, s, arrowSize) ==
    WingLine(PointBegin(line, reversedEdge), AngleBegin(line, reversedEdge), s, arrowSize)

\* lineEndLeft (s = 1) and lineEndRight (s = -1)
LineEnd(line, reversedEdge, s, arrowSize) ==
    WingLine(PointEnd(line, reversedEdge), AngleEnd(line, reversedEdge), s, arrowSize)

\* QGraphicsLineItem::setLine followed by show()
SetLineAndShow(item, line) ==
    [p1 |-> line.p1, p2 |-> line.p2, visible |-> TRUE, pen |-> item.pen]
Hidden(item) == [item EXCEPT !.visible = FALSE]
WithPen(item, pen) == [item EXCEPT !.pen = pen]

\* The four wing items as one record, for the arrowhead operators.
Wings(bl, br, el, er) ==
    [beginLeft |-> bl, beginRight |-> br, endLeft |-> el, endRight |-> er]

\* Edge::setArrowHeadPen
setArrowHeadPen(w, pen) ==
    Wings(WithPen(w.beginLeft, pen), WithPen(w.beginRight, pen),
          WithPen(w.endLeft, pen), WithPen(w.endRight, pen))

\* A faulty updateHiddenArrowhead that forgets the wings of the end: the
\* property of the Hidden mode must tell it from the real one.
updateHiddenArrowheadBeginOnly(w) ==
    Wings(Hidden(w.beginLeft), Hidden(w.beginRight), w.endLeft, w.endRight)

\* Edge::updateHiddenArrowhead
updateHiddenArrowhead(w) ==
    Wings(Hidden(w.beginLeft), Hidden(w.beginRight),
          Hidden(w.endLeft), Hidden(w.endRight))

\* A faulty updateSingleArrowhead that leaves the wings of the end as they
\* are: the property of the Single mode must tell it from the real one.
updateSingleArrowheadKeepEnd(w, line, model) ==
    Wings(SetLineAndShow(w.beginLeft, LineBegin(line, model.reversed, 1, model.arrowSize)),
          SetLineAndShow(w.beginRight, LineBegin(line, model.reversed, -1, model.arrowSize)),
          w.endLeft,
          w.endRight)

\* Edge::updateSingleArrowhead
updateSingleArrowhead(w, line, model) ==
    Wings(SetLineAndShow(w.beginLeft, LineBegin(line, model.reversed, 1, model.arrowSize)),
          SetLineAndShow(w.beginRight, LineBegin(line, model.reversed, -1, model.arrowSize)),
          Hidden(w.endLeft),
          Hidden(w.endRight))

\* A faulty updateDoubleArrowhead whose wings of the end ignore the reversed
\* flag: the property of the Double mode must tell it from the real one.
updateDoubleArrowheadFixedEnd(w, line, model) ==
    Wings(SetLineAndShow(w.beginLeft, LineBegin(line, model.reversed, 1, model.arrowSize)),
          SetLineAndShow(w.beginRight, LineBegin(line, model.reversed, -1, model.arrowSize)),
          SetLineAndShow(w.endLeft, LineEnd(line, FALSE, 1, model.arrowSize)),
          SetLineAndShow(w.endRight, LineEnd(line, FALSE, -1, model.arrowSize)))

\* Edge::updateDoubleArrowhead
updateDoubleArrowhead(w, line, model) ==
    Wings(SetLineAndShow(w.beginLeft, LineBegin(line, model.reversed, 1, model.arrowSize)),
          SetLineAndShow(w.beginRight, LineBegin(line, model.reversed, -1, model.arrowSize)),
          SetLineAndShow(w.endLeft, LineEnd(line, model.reversed, 1, model.arrowSize)),
          SetLineAndShow(w.endRight, LineEnd(line, model.reversed, -1, model.arrowSize)))

\* The switch of Edge::updateArrowhead
ArrowheadForMode(w, line, model) ==
    CASE model.arrowMode = "Single" -> updateSingleArrowhead(w, line, model)
      [] model.arrowMode = "Double" -> updateDoubleArrowhead(w, line, model)
      [] model.arrowMode = "Hidden" -> updateHiddenArrowhead(w)

\* A faulty updateArrowhead that gives the wings the pen of the body line,
\* dash pattern included: the property of the pens must tell it from the real
\* one.
updateArrowheadDashed(w, line, model) ==
    ArrowheadForMode(setArrowHeadPen(w, buildPen(model, FALSE)), line, model)

\* Edge::updateArrowhead
updateArrowhead(w, line, model) ==
    ArrowheadForMode(setArrowHeadPen(w, buildPen(model, TRUE)), line, model)

\* ------------------------------------------------------------------------
\* Label visibility
\* ------------------------------------------------------------------------

\* QGraphicsItem::setVisible(): an item that is hidden gives up input focus.
SetVisible(item, visible) ==
    IF visible THEN [item EXCEPT !.visible = TRUE]
    ELSE IF "hasFocus" \in DOMAIN item
         THEN [item EXCEPT !.visible = FALSE, !.hasFocus = FALSE]
         ELSE [item EXCEPT !.visible = FALSE]

Labels(label, dummy) == [label |-> label, dummy |-> dummy]

\* isEnoughSpaceForLabel of Edge::setLabelVisible
IsEnoughSpaceForLabel(label, source, target) ==
    /\ label.inScene
    /\ ~Intersects(LabelSceneBoundingRect(label), NodeSceneBoundingRect(source))
    /\ ~Intersects(LabelSceneBoundingRect(label), NodeSceneBoundingRect(target))

\* isEnoughSpaceForDummyLabel of Edge::setLabelVisible
IsEnoughSpaceForDummyLabel(dummy, source, target) ==
    /\ inScene
    /\ ~Intersects(LabelSceneBoundingRect(dummy), NodeSceneBoundingRect(source))
    /\ ~Intersects(LabelSceneBoundingRect(dummy), NodeSceneBoundingRect(target))

\* dummyLabelTextIsShoterThanLabelText of Edge::setLabelVisible
DummyLabelTextIsShorterThanLabelText(label, dummy) ==
    Len(dummy.text) < Len(label.text)

\* A faulty AvailableSpaceChanged case that shows the dummy whenever it fits,
\* whatever the length of the text: the property of the case must tell it
\* from the real one.
AvailableSpaceChangedCaseAnyLength(label, dummy, visible, source, target) ==
    LET isLabelVisible == IsEnoughSpaceForLabel(label, source, target) /\ label.text # EmptyText
    IN Labels(SetVisible(label, isLabelVisible),
              SetVisible(dummy, /\ ~isLabelVisible
                                /\ IsEnoughSpaceForDummyLabel(dummy, source, target)))

\* case VisibilityChangeReason::AvailableSpaceChanged
AvailableSpaceChangedCase(label, dummy, visible, source, target) ==
    LET isLabelVisible == IsEnoughSpaceForLabel(label, source, target) /\ label.text # EmptyText
    IN Labels(SetVisible(label, isLabelVisible),
              SetVisible(dummy, /\ ~isLabelVisible
                                /\ IsEnoughSpaceForDummyLabel(dummy, source, target)
                                /\ DummyLabelTextIsShorterThanLabelText(label, dummy)))

\* case VisibilityChangeReason::Explicit
ExplicitCase(label, dummy, visible) ==
    Labels(SetVisible(label, visible), SetVisible(dummy, visible))

\* case VisibilityChangeReason::Focused
FocusedCase(label, dummy, visible) ==
    IF visible
    THEN Labels([SetVisible(label, TRUE) EXCEPT !.parentIsEdge = FALSE],
                SetVisible(dummy, FALSE))
    ELSE Labels(label, dummy)

\* A faulty Timeout case that hides the label and falls back to the dummy
\* label whatever the hide condition says: the property of the case must
\* tell it from the real one.
TimeoutCaseAlwaysFallback(label, dummy, visible, source, target) ==
    IF ~visible
    THEN Labels(SetVisible(label, FALSE),
                SetVisible(dummy, /\ IsEnoughSpaceForDummyLabel(dummy, source, target)
                                  /\ DummyLabelTextIsShorterThanLabelText(label, dummy)))
    ELSE Labels(label, dummy)

\* case VisibilityChangeReason::Timeout
TimeoutCase(label, dummy, visible, source, target) ==
    IF /\ ~visible
       /\ \/ label.text = EmptyText
          \/ (label.text # EmptyText /\ ~IsEnoughSpaceForLabel(label, source, target))
       /\ ~label.hasFocus
    THEN Labels(SetVisible(label, FALSE),
                SetVisible(dummy, /\ IsEnoughSpaceForDummyLabel(dummy, source, target)
                                  /\ DummyLabelTextIsShorterThanLabelText(label, dummy)))
    ELSE Labels(label, dummy)

\* Edge::setLabelVisible(visible, vcr), on the given label items
setLabelVisible(label, dummy, visible, vcr, source, target) ==
    IF ~m_enableLabel THEN Labels(label, dummy)
    ELSE CASE vcr = "AvailableSpaceChanged" ->
                AvailableSpaceChangedCase(label, dummy, visible, source, target)
           [] vcr = "Explicit" -> ExplicitCase(label, dummy, visible)
           [] vcr = "Focused" -> FocusedCase(label, dummy, visible)
           [] vcr = "Timeout" -> TimeoutCase(label, dummy, visible, source, target)

\* The position Edge::updateLabel gives a label: the centre of the line
\* minus half of the label's own box.
LabelPosition(line, item) ==
    LET b == TextBoundingRect(item.text)
    IN Pt(SDiv(line.p1.x + line.p2.x - b.width, 2),
          SDiv(line.p1.y + line.p2.y - b.height, 2))

\* A faulty updateLabel that places the labels and never looks at the space
\* again: the property of the recompute must tell it from the real one.
updateLabelPlaceOnly(label, dummy, line, lur, source, target) ==
    IF ~m_enableLabel THEN Labels(label, dummy)
    ELSE Labels([label EXCEPT !.pos = LabelPosition(line, label)],
                [dummy EXCEPT !.pos = LabelPosition(line, dummy)])

\* Edge::updateLabel(lur), on the given label items and line
updateLabel(label, dummy, line, lur, source, target) ==
    IF ~m_enableLabel THEN Labels(label, dummy)
    ELSE LET placed == [label EXCEPT !.pos = LabelPosition(line, label)]
             placedDummy == [dummy EXCEPT !.pos = LabelPosition(line, dummy)]
         IN IF lur = "EdgeGeometryChanged"
            THEN setLabelVisible(placed, placedDummy, placed.visible,
                                 "AvailableSpaceChanged", source, target)
            ELSE Labels(placed, placedDummy)

\* ------------------------------------------------------------------------
\* Connection dots
\* ------------------------------------------------------------------------

\* A faulty half of updateDots that compares positions in the scene instead
\* of positions relative to the node: the retrigger property must tell it
\* from the real one.
DotUpdateAbsolute(previousRelativePos, running, endpoint, node) ==
    IF previousRelativePos # endpoint
    THEN [previous |-> endpoint, running |-> TRUE, restarted |-> TRUE]
    ELSE [previous |-> previousRelativePos, running |-> running, restarted |-> FALSE]

\* A faulty half of updateDots that restarts the animation on every call:
\* the idempotence property must tell it from the real one.
DotUpdateAlways(previousRelativePos, running, endpoint, node) ==
    [previous |-> PSub(endpoint, node.pos), running |-> TRUE, restarted |-> TRUE]

\* One half of Edge::updateDots: the recorded relative position, whether the
\* animation runs and whether this call (re)started it.
DotUpdate(previousRelativePos, running, endpoint, node) ==
    LET newRelativePos == PSub(endpoint, node.pos)
    IN IF previousRelativePos # newRelativePos
       THEN [previous |-> newRelativePos, running |-> TRUE, restarted |-> TRUE]
       ELSE [previous |-> previousRelativePos, running |-> running, restarted |-> FALSE]


\* ------------------------------------------------------------------------
\* Grid (grid.cpp): coordinates are doubles, kept in the units of the edge
\* (a tenth of a pixel); the grid size is an int, in pixels
\* ------------------------------------------------------------------------

\* Units of the model in one pixel.
UnitsPerPixel == 10

\* The loop of Grid::calculateLines has no bound of its own: the model stops
\* a call that has produced this many lines, more than any call that ends
\* produces for the rectangles and sizes below.
MaxLines == 8

\* The sizes given to Grid::setSize(int).
GridSizes == { -1, 0, 1, 3 }

\* The points given to Grid::snapToGrid, with the ties (half of a size) and
\* their neighbours on both sides of 0.
SnapXs == { -25, -15, -14, -5, 0, 4, 5, 6, 15, 16, 44 }
SnapYs == { -16, 0, 15 }
SnapPoints == { Pt(x, y) : x \in SnapXs, y \in SnapYs }

\* The rectangles given to Grid::calculateLines: QRectF(left, top, width,
\* height), empty and inverted ones among them.
SceneRects ==
    { Rect(l, t, w, h) : l \in { -14, 5 }, t \in { -6, 0 },
                         w \in { -10, 0, 25 }, h \in { 0, 22 } }
Right(rect) == rect.left + rect.width
Bottom(rect) == rect.top + rect.height

\* std::round(a / d) of doubles for d # 0: the nearest integer, a tie going
\* away from zero.
StdRound(a, d) ==
    LET q == (2 * Abs(a) + Abs(d)) \div (2 * Abs(d))
    IN IF (a < 0) # (d < 0) THEN -q ELSE q

\* A faulty snapToGrid that cuts the quotient off instead of rounding it:
\* the property of the nearest multiple must tell it from the real one.
snapToGridTruncating(size, in) ==
    IF size = 0 THEN in
    ELSE Pt(SDiv(in.x, size * UnitsPerPixel) * size * UnitsPerPixel,
            SDiv(in.y, size * UnitsPerPixel) * size * UnitsPerPixel)

\* Grid::snapToGrid with m_size = size
snapToGrid(size, in) ==
    IF size = 0 THEN in
    ELSE Pt(StdRound(in.x, size * UnitsPerPixel) * size * UnitsPerPixel,
            StdRound(in.y, size * UnitsPerPixel) * size * UnitsPerPixel)

\* What the history of the grid records of a routine.
GridDone(op, size, in, out, before) ==
    [op |-> op, size |-> size, in |-> in, out |-> out, before |-> before]

\* ------------------------------------------------------------------------
\* Serializer (serializer.cpp): a node of the mind map is [index, text,
\* location]; a coordinate of a location is a double, kept in tenths of
\* 1 / SCALE; a QDomNode is [kind, name, attributes, children, value]
\* ------------------------------------------------------------------------

\* static const double SCALE = 1000, as the number of units of the model in
\* 1 / SCALE of a coordinate.
UnitsPerMilli == 10

\* The indices, texts and locations of the nodes of the model; each
\* coordinate times SCALE fits an int.
NodeIndices == { 0, 12 }
NodeTexts == { << >>, << "a", "b" >> }
NodeLocations == { Pt(-15005, 12349), Pt(9, -10000) }
MindMapNode(index, text, location) ==
    [index |-> index, text |-> text, location |-> location]
MindMapNodes ==
    { MindMapNode(i, t, l) : i \in NodeIndices, t \in NodeTexts, l \in NodeLocations }

\* Graph::addNode: the graph keeps one node for an index.
AddNodeTo(graph, node) ==
    { n \in graph : n.index # node.index } \cup { node }

\* The orders in which a loop can go through the nodes of a graph.
IterationsOf(graph) ==
    { order \in [1..Cardinality(graph) -> graph] :
        \A i, j \in 1..Cardinality(graph) : i # j => order[i] # order[j] }

\* QString::number(int): the decimal digits, after a minus sign below 0
DecimalDigits == << "0", "1", "2", "3", "4", "5", "6", "7", "8", "9" >>
RECURSIVE NumberOfNat(_)
NumberOfNat(n) ==
    IF n < 10 THEN << DecimalDigits[n + 1] >>
    ELSE Append(NumberOfNat(n \div 10), DecimalDigits[(n % 10) + 1])
Number(n) == IF n < 0 THEN << "-" >> \o NumberOfNat(-n) ELSE NumberOfNat(n)

\* QString::toInt(): the number a string of decimal digits with an optional
\* sign stands for, and 0 for any other string
IsDigit(ch) == \E d \in 1..10 : DecimalDigits[d] = ch
DigitValue(ch) == (CHOOSE d \in 1..10 : DecimalDigits[d] = ch) - 1
RECURSIVE NatOfDigits(_, _)
NatOfDigits(digits, value) ==
    IF digits = << >> THEN value
    ELSE NatOfDigits(Tail(digits), 10 * value + DigitValue(Head(digits)))
toInt(string) ==
    LET signed == string # << >> /\ Head(string) \in { "-", "+" }
        digits == IF signed THEN Tail(string) ELSE string
    IN IF digits = << >> \/ \E i \in 1..Len(digits) : ~IsDigit(digits[i])
       THEN 0
       ELSE IF signed /\ Head(string) = "-"
            THEN -NatOfDigits(digits, 0)
            ELSE NatOfDigits(digits, 0)

\* static_cast<int>(coordinate * SCALE): the fraction is cut off
ScaledToInt(coordinate) == SDiv(coordinate, UnitsPerMilli)

\* A faulty cast that rounds to the nearest int instead of cutting off.
ScaledToNearestInt(coordinate) == StdRound(coordinate, UnitsPerMilli)

\* QDomNode: an element with its attributes and children, or a text node
NoAttributes == << >>
DomElement(name, attributes, children) ==
    [kind |-> "element", name |-> name, attributes |-> attributes,
     children |-> children, value |-> << >>]
DomText(value) ==
    [kind |-> "text", name |-> "#text", attributes |-> NoAttributes,
     children |-> << >>, value |-> value]

\* QDomElement::attribute(name, defValue)
Attribute(element, name, defValue) ==
    IF name \in DOMAIN element.attributes THEN element.attributes[name]
    ELSE defValue

\* A faulty writeNodes that writes the coordinates rounded to the nearest
\* 1 / SCALE: the property of the round trip must tell it from the real one.
writeNodesRounding(nodes) ==
    [i \in 1..Len(nodes) |->
        DomElement("node",
                   [index |-> Number(nodes[i].index),
                    x |-> Number(ScaledToNearestInt(nodes[i].location.x)),
                    y |-> Number(ScaledToNearestInt(nodes[i].location.y))],
                   << DomElement("text", NoAttributes, << DomText(nodes[i].text) >>) >>)]

\* writeNodes: the elements appended to the root for the nodes of the
\* graph, in the order of the loop
writeNodes(nodes) ==
    [i \in 1..Len(nodes) |->
        DomElement("node",
                   [index |-> Number(nodes[i].index),
                    x |-> Number(ScaledToInt(nodes[i].location.x)),
                    y |-> Number(ScaledToInt(nodes[i].location.y))],
                   << DomElement("text", NoAttributes, << DomText(nodes[i].text) >>) >>)]

\* readFirstTextNodeContent
RECURSIVE readFirstTextNodeContent(_)
readFirstTextNodeContent(children) ==
    IF children = << >> THEN << >>
    ELSE IF Head(children).kind = "text" THEN Head(children).value
         ELSE readFirstTextNodeContent(Tail(children))

\* The loop of readNode over the children of the element: every child
\* element named text sets the text of the node.
RECURSIVE TextOfChildren(_, _)
TextOfChildren(children, text) ==
    IF children = << >> THEN text
    ELSE LET child == Head(children)
         IN IF child.kind = "element" /\ child.name = "text"
            THEN TextOfChildren(Tail(children), readFirstTextNodeContent(child.children))
            ELSE TextOfChildren(Tail(children), text)

\* readNode
readNode(element) ==
    MindMapNode(toInt(Attribute(element, "index", << "-", "1" >>)),
                TextOfChildren(element.children, << >>),
                Pt(toInt(Attribute(element, "x", << "0" >>)) * UnitsPerMilli,
                   toInt(Attribute(element, "y", << "0" >>)) * UnitsPerMilli))

\* A QDomDocument: the version attribute and the children of its root, and
\* for the history the graph it was written from (`written`, `source`).
Config_APPLICATION_VERSION == "version"
Document(version, root, written, source) ==
    [version |-> version, root |-> root, written |-> written, source |-> source]
NoDocument == Document("UNDEFINED", << >>, FALSE, {})

\* The MindMapData of fromXml: the version and the graph, and for the
\* history the nodes as readNode returned them and the document read.
MindMapData(loaded, version, graph, read, from) ==
    [loaded |-> loaded, version |-> version, graph |-> graph, read |-> read,
     from |-> from]
NoData == MindMapData(FALSE, "UNDEFINED", {}, << >>, NoDocument)

\* The loop of Serializer::fromXml over the children of the root
RECURSIVE ReadElements(_, _)
ReadElements(elements, result) ==
    IF elements = << >> THEN result
    ELSE LET element == Head(elements)
         IN IF element.kind = "element" /\ element.name = "node"
            THEN ReadElements(Tail(elements),
                              [result EXCEPT
                                 !.graph = AddNodeTo(@, readNode(element)),
                                 !.read = Append(@, readNode(element))])
            ELSE ReadElements(Tail(elements), result)

\* Serializer::fromXml
fromXml(doc) ==
    ReadElements(doc.root, MindMapData(TRUE, doc.version, {}, << >>, doc))

\* Serializer::toXml, for one order of the loop over the graph
toXml(nodes, graph) ==
    Document(Config_APPLICATION_VERSION, writeNodes(nodes), TRUE, graph)

\* Documents from elsewhere: node elements without index, without
\* coordinates, without text, with a text that is not the first child, and
\* an element that is no node.
ForeignDocuments ==
    { Document("UNDEFINED",
               << DomElement("node", [x |-> << "5" >>, y |-> << "-", "7" >>],
                             << DomElement("text", NoAttributes,
                                           << DomText(<< "a" >>) >>) >>) >>,
               FALSE, {}),
      Document("0.1",
               << DomElement("node", [index |-> << "3" >>], << >>),
                  DomElement("edge", [index |-> << "4" >>], << >>) >>,
               FALSE, {}),
      Document("0.1",
               << DomElement("node", NoAttributes,
                             << DomText(<< "b" >>),
                                DomElement("text", NoAttributes, << >>) >>),
                  DomElement("node", [index |-> << "x" >>, x |-> << "1", "2" >>],
                             << >>) >>,
               FALSE, {}) }

\* ------------------------------------------------------------------------
\* Construction
\* ------------------------------------------------------------------------

\* new QGraphicsLineItem(this): a null line, shown, default pen
NewLineItem == [p1 |-> Origin, p2 |-> Origin, visible |-> TRUE, pen |-> DefaultPen]

\* new EdgeTextEdit(this): no text, state Hidden, child of the edge
NewLabel ==
    [text |-> EmptyText, pos |-> Origin, visible |-> FALSE,
     parentIsEdge |-> TRUE, inScene |-> FALSE, hasFocus |-> FALSE]
NewDummyLabel == [text |-> DummyText, pos |-> Origin, visible |-> FALSE]

\* The object exists: constructed, not destroyed, and no null pointer used
Alive == lifecycle = "alive"

Done(op) ==
    [op |-> op, vcr |-> "None", visible |-> FALSE,
     sourceRestarted |-> FALSE, targetRestarted |-> FALSE,
     labelRestored |-> FALSE]

\* Edge::Edge(sourceNode, targetNode, enableAnimations, enableLabel)
Init ==
    /\ testMode \in BOOLEAN
    /\ m_enableAnimations \in BOOLEAN
    /\ m_enableLabel \in BOOLEAN
    /\ \E r1 \in CornerRadii, r2 \in CornerRadii :
          /\ m_sourceNode = [pos |-> GridPos(0, 0), cornerRadius |-> r1,
                             graphicsEdges |-> {}]
          /\ m_targetNode = [pos |-> GridPos(MaxTargetCol, 0), cornerRadius |-> r2,
                             graphicsEdges |-> {}]
    /\ m_edgeModel = [reversed |-> FALSE, arrowMode |-> "Single",
                      arrowSize |-> DefaultArrowSize, edgeWidth |-> DefaultEdgeWidth,
                      dashedLine |-> FALSE, text |-> EmptyText]
    /\ m_line = [p1 |-> Origin, p2 |-> Origin, pen |-> DefaultPen]
    /\ m_arrowheadBeginLeft = NewLineItem
    /\ m_arrowheadBeginRight = NewLineItem
    /\ m_arrowheadEndLeft = NewLineItem
    /\ m_arrowheadEndRight = NewLineItem
    /\ m_label = IF m_enableLabel THEN NewLabel ELSE Null
    /\ m_dummyLabel = IF m_enableLabel THEN NewDummyLabel ELSE Null
    /\ inScene = FALSE
    /\ m_labelVisibilityTimer = FALSE
    /\ m_sourceDotSizeAnimation = FALSE
    /\ m_targetDotSizeAnimation = FALSE
    /\ m_previousRelativeSourcePos = Origin
    /\ m_previousRelativeTargetPos = Origin
    /\ m_sourceDot = IF m_enableAnimations THEN Origin ELSE Null
    /\ m_targetDot = IF m_enableAnimations THEN Origin ELSE Null
    /\ lifecycle = "alive"
    /\ last = Done("Edge")
    /\ m_size = 0
    /\ m_lines = << >>
    /\ gridPc = "idle"
    /\ gridRect = Rect(0, 0, 0, 0)
    /\ gridX = 0
    /\ gridLast = GridDone("Grid", 0, Origin, Origin, 0)
    /\ m_mindMapData = {}
    /\ document = NoDocument
    /\ data = NoData

\* ------------------------------------------------------------------------
\* Geometry recompute
\* ------------------------------------------------------------------------

CurrentWings ==
    Wings(m_arrowheadBeginLeft, m_arrowheadBeginRight,
          m_arrowheadEndLeft, m_arrowheadEndRight)

SetWings(w) ==
    /\ m_arrowheadBeginLeft' = w.beginLeft
    /\ m_arrowheadBeginRight' = w.beginRight
    /\ m_arrowheadEndLeft' = w.endLeft
    /\ m_arrowheadEndRight' = w.endRight

SetLabels(l) ==
    /\ m_label' = l.label
    /\ m_dummyLabel' = l.dummy

\* The two halves of Edge::updateDots for the new line
SourceDotUpdate(line, source) ==
    DotUpdate(m_previousRelativeSourcePos, m_sourceDotSizeAnimation, line.p1, source)
TargetDotUpdate(line, target) ==
    DotUpdate(m_previousRelativeTargetPos, m_targetDotSizeAnimation, line.p2, target)

\* Edge::updateDots, given the new line
updateDots(line, source, target) ==
    IF m_enableAnimations
    THEN \E s \in { SourceDotUpdate(line, source) },
            t \in { TargetDotUpdate(line, target) } :
            /\ m_previousRelativeSourcePos' = s.previous
            /\ m_sourceDotSizeAnimation' = s.running
            /\ m_sourceDot' = line.p1
            /\ m_previousRelativeTargetPos' = t.previous
            /\ m_targetDotSizeAnimation' = t.running
            /\ m_targetDot' = line.p2
    ELSE UNCHANGED dotVars

\* What a run of Edge::updateLine on behalf of `op` leaves in `last`: the
\* setLabelVisible call of updateLabel and the animations updateDots started.
Updated(op, line, source, target) ==
    [op |-> op,
     vcr |-> IF m_enableLabel THEN "AvailableSpaceChanged" ELSE "None",
     visible |-> IF m_enableLabel THEN m_label.visible ELSE FALSE,
     sourceRestarted |-> IF m_enableAnimations
                         THEN SourceDotUpdate(line, source).restarted ELSE FALSE,
     targetRestarted |-> IF m_enableAnimations
                         THEN TargetDotUpdate(line, target).restarted ELSE FALSE]

\* Edge::updateLine, run with the edge model `model` on behalf of `op`
updateLine(source, target, model, op) ==
    \E line \in { ComputeLine(source, target, model) } :
       /\ m_line' = [p1 |-> line.p1, p2 |-> line.p2, pen |-> buildPen(model, FALSE)]
       /\ updateDots(line, source, target)
       /\ \E labels \in { updateLabel(m_label, m_dummyLabel, line,
                                       "EdgeGeometryChanged", source, target) } :
             SetLabels(labels)
       /\ \E wings \in { updateArrowhead(CurrentWings, line, model) } :
             SetWings(wings)
       /\ last' = Updated(op, line, source, target)

\* ------------------------------------------------------------------------
\* Operations
\* ------------------------------------------------------------------------

\* The scene takes the edge (QGraphicsScene::addItem), with its children.
AddToScene ==
    /\ Alive
    /\ ~inScene
    /\ inScene' = TRUE
    /\ m_label' = IF m_enableLabel /\ m_label.parentIsEdge
                  THEN [m_label EXCEPT !.inScene = TRUE] ELSE m_label
    /\ last' = Done("addToScene")
    /\ UNCHANGED << restVars, configVars, lifecycle, nodeVars, m_edgeModel, m_line, arrowVars,
                    m_dummyLabel, m_labelVisibilityTimer, dotVars >>

\* A faulty removeFromScene that forgets restoreLabelParent: a label that was
\* detached from the edge stays where it is, a top-level item of the scene.
removeFromSceneKeepParent ==
    /\ Alive
    /\ inScene' = FALSE
    /\ m_label' = IF m_enableLabel /\ inScene /\ m_label.parentIsEdge
                  THEN [m_label EXCEPT !.inScene = FALSE, !.hasFocus = FALSE]
                  ELSE m_label
    /\ last' = [Done("removeFromScene") EXCEPT
                   !.labelRestored = m_enableLabel /\ ~m_label.parentIsEdge]
    /\ UNCHANGED << restVars, configVars, lifecycle, nodeVars, m_edgeModel, m_line, arrowVars,
                    m_dummyLabel, m_labelVisibilityTimer, dotVars >>

\* Edge::removeFromScene, with Edge::restoreLabelParent; `last` records
\* whether the label had to be given back to the edge.
removeFromScene ==
    /\ Alive
    /\ inScene' = FALSE
    /\ m_label' = IF m_enableLabel
                  THEN IF inScene
                       THEN [m_label EXCEPT !.parentIsEdge = TRUE,
                                            !.inScene = FALSE, !.hasFocus = FALSE]
                       ELSE [m_label EXCEPT !.parentIsEdge = TRUE]
                  ELSE m_label
    /\ last' = [Done("removeFromScene") EXCEPT
                   !.labelRestored = m_enableLabel /\ ~m_label.parentIsEdge]
    /\ UNCHANGED << restVars, configVars, lifecycle, nodeVars, m_edgeModel, m_line, arrowVars,
                    m_dummyLabel, m_labelVisibilityTimer, dotVars >>

\* One node or both are moved (Node::setLocation) and the edge is recomputed
\* for the new positions (Edge::updateLine).
NodesMoved ==
    /\ Alive
    /\ \E p \in SourcePositions, q \in TargetPositions :
          /\ << p, q >> # << m_sourceNode.pos, m_targetNode.pos >>
          /\ m_sourceNode' = [m_sourceNode EXCEPT !.pos = p]
          /\ m_targetNode' = [m_targetNode EXCEPT !.pos = q]
          /\ updateLine([m_sourceNode EXCEPT !.pos = p],
                        [m_targetNode EXCEPT !.pos = q], m_edgeModel, "nodesMoved")
    /\ UNCHANGED << restVars, configVars, lifecycle, m_edgeModel, inScene, m_labelVisibilityTimer >>

\* Edge::updateLine, called by the owner of the edge after a geometry change
UpdateLine ==
    /\ Alive
    /\ updateLine(m_sourceNode, m_targetNode, m_edgeModel, "updateLine")
    /\ UNCHANGED << restVars, configVars, lifecycle, nodeVars, m_edgeModel, inScene,
                    m_labelVisibilityTimer >>

\* Edge::setEdgeWidth
setEdgeWidth ==
    /\ Alive
    /\ \E edgeWidth \in EdgeWidths :
       LET model == [m_edgeModel EXCEPT !.edgeWidth = edgeWidth]
       IN /\ m_edgeModel' = model
          /\ updateLine(m_sourceNode, m_targetNode, model, "updateLine")
          /\ UNCHANGED << restVars, configVars, lifecycle, nodeVars, inScene, m_labelVisibilityTimer >>

\* A faulty setArrowSize that stores the size and leaves the geometry as it
\* is: the property of the setters must tell it from the real one.
setArrowSizeStoreOnly ==
    /\ Alive
    /\ \E arrowSize \in ArrowSizes :
          m_edgeModel' = [m_edgeModel EXCEPT !.arrowSize = arrowSize]
    /\ last' = Done("none")
    /\ UNCHANGED << restVars, configVars, lifecycle, nodeVars, m_line, arrowVars, labelVars,
                    inScene, m_labelVisibilityTimer, dotVars >>

\* Edge::setArrowSize
setArrowSize ==
    /\ Alive
    /\ \E arrowSize \in ArrowSizes :
       LET model == [m_edgeModel EXCEPT !.arrowSize = arrowSize]
       IN /\ m_edgeModel' = model
          /\ updateLine(m_sourceNode, m_targetNode, model, "updateLine")
          /\ UNCHANGED << restVars, configVars, lifecycle, nodeVars, inScene, m_labelVisibilityTimer >>

\* Edge::setArrowMode
setArrowMode ==
    /\ Alive
    /\ \E arrowMode \in ArrowModes :
       LET model == [m_edgeModel EXCEPT !.arrowMode = arrowMode]
       IN /\ m_edgeModel' = model
          /\ IF ~testMode
             THEN updateLine(m_sourceNode, m_targetNode, model, "updateLine")
             ELSE /\ last' = Done("none")
                  /\ UNCHANGED << m_line, arrowVars, labelVars, dotVars >>
          /\ UNCHANGED << restVars, configVars, lifecycle, nodeVars, inScene, m_labelVisibilityTimer >>

\* Edge::setDashedLine
setDashedLine ==
    /\ Alive
    /\ \E enable \in BOOLEAN :
       LET model == [m_edgeModel EXCEPT !.dashedLine = enable]
       IN /\ m_edgeModel' = model
          /\ IF ~testMode
             THEN updateLine(m_sourceNode, m_targetNode, model, "updateLine")
             ELSE /\ last' = Done("none")
                  /\ UNCHANGED << m_line, arrowVars, labelVars, dotVars >>
          /\ UNCHANGED << restVars, configVars, lifecycle, nodeVars, inScene, m_labelVisibilityTimer >>

\* Edge::setReversed
setReversed ==
    /\ Alive
    /\ \E reversed \in BOOLEAN :
       LET model == [m_edgeModel EXCEPT !.reversed = reversed]
       IN /\ m_edgeModel' = model
          /\ \E wings \in { updateArrowhead(CurrentWings, m_line, model) } :
                SetWings(wings)
          /\ last' = Done("updateArrowhead")
          /\ UNCHANGED << restVars, configVars, lifecycle, nodeVars, m_line, labelVars, inScene,
                          m_labelVisibilityTimer, dotVars >>


\* A setLabelVisible(visible, vcr) step on behalf of `op`
LabelStep(visible, vcr, op) ==
    /\ \E labels \in { setLabelVisible(m_label, m_dummyLabel, visible, vcr,
                                        m_sourceNode, m_targetNode) } :
          SetLabels(labels)
    /\ last' = [Done(op) EXCEPT !.vcr = vcr, !.visible = visible]

\* Edge::setLabelVisible, called by the owner of the edge
SetLabelVisible ==
    /\ Alive
    /\ \E visible \in BOOLEAN, vcr \in Reasons :
          LabelStep(visible, vcr, "setLabelVisible")
    /\ UNCHANGED << restVars, configVars, lifecycle, nodeVars, m_edgeModel, m_line, arrowVars,
                    inScene, m_labelVisibilityTimer, dotVars >>

\* A faulty hoverEnterEvent that leaves the timer as it is: the property of
\* the hide timer must tell it from the real one.
hoverEnterEventKeepTimer ==
    /\ Alive
    /\ m_enableAnimations /\ inScene
    /\ LabelStep(TRUE, "Focused", "hoverEnterEvent")
    /\ UNCHANGED << restVars, configVars, lifecycle, nodeVars, m_edgeModel, m_line, arrowVars,
                    inScene, m_labelVisibilityTimer, dotVars >>

\* Edge::hoverEnterEvent (the edge accepts hover events only with animations)
hoverEnterEvent ==
    /\ Alive
    /\ m_enableAnimations /\ inScene
    /\ m_labelVisibilityTimer' = FALSE
    /\ LabelStep(TRUE, "Focused", "hoverEnterEvent")
    /\ UNCHANGED << restVars, configVars, lifecycle, nodeVars, m_edgeModel, m_line, arrowVars,
                    inScene, dotVars >>

\* Edge::hoverLeaveEvent
hoverLeaveEvent ==
    /\ Alive
    /\ m_enableAnimations /\ inScene
    /\ m_labelVisibilityTimer' = TRUE
    /\ last' = Done("hoverLeaveEvent")
    /\ UNCHANGED << restVars, configVars, lifecycle, nodeVars, m_edgeModel, m_line, arrowVars,
                    labelVars, inScene, dotVars >>

\* m_labelVisibilityTimer fires: the lambda connected to QTimer::timeout.
\* The timer is made single-shot, and the lambda connected, only on an edge
\* with a label; on any other edge it is a repeating QTimer nobody listens to.
TimerTimeout ==
    /\ Alive
    /\ m_labelVisibilityTimer
    /\ m_labelVisibilityTimer' = ~m_enableLabel
    /\ IF m_enableLabel
       THEN LabelStep(FALSE, DefaultReason, "timerTimeout")
       ELSE /\ last' = Done("timerTimeout")
            /\ UNCHANGED labelVars
    /\ UNCHANGED << restVars, configVars, lifecycle, nodeVars, m_edgeModel, m_line, arrowVars,
                    inScene, dotVars >>

\* The mouse enters the label: the lambda connected to EdgeTextEdit::hoverEntered
LabelHoverEntered ==
    /\ Alive
    /\ m_enableLabel /\ m_label.inScene /\ m_label.visible
    /\ LabelStep(TRUE, "Focused", "labelHoverEntered")
    /\ UNCHANGED << restVars, configVars, lifecycle, nodeVars, m_edgeModel, m_line, arrowVars,
                    inScene, m_labelVisibilityTimer, dotVars >>

\* The label signals its own timeout: the lambda connected to
\* EdgeTextEdit::visibilityTimeout
LabelVisibilityTimeout ==
    /\ Alive
    /\ m_enableLabel /\ m_label.inScene
    /\ LabelStep(FALSE, DefaultReason, "labelVisibilityTimeout")
    /\ UNCHANGED << restVars, configVars, lifecycle, nodeVars, m_edgeModel, m_line, arrowVars,
                    inScene, m_labelVisibilityTimer, dotVars >>

\* The user clicks into the visible label, or the focus goes elsewhere.
LabelFocusChanged ==
    /\ Alive
    /\ m_enableLabel /\ m_label.inScene /\ m_label.visible
    /\ m_label' = [m_label EXCEPT !.hasFocus = ~m_label.hasFocus]
    /\ last' = Done("labelFocusChanged")
    /\ UNCHANGED << restVars, configVars, lifecycle, nodeVars, m_edgeModel, m_line, arrowVars,
                    m_dummyLabel, inScene, m_labelVisibilityTimer, dotVars >>

\* The user edits the text in the focused label: the lambda connected to
\* TextEdit::textChanged (updateLabel with the default reason, then the model's text)
LabelTextChanged ==
    /\ Alive
    /\ m_enableLabel /\ m_label.hasFocus
    /\ \E text \in Texts :
          /\ text # m_label.text
          /\ \E labels \in { updateLabel([m_label EXCEPT !.text = text], m_dummyLabel,
                                          m_line, "Default", m_sourceNode,
                                          m_targetNode) } :
                SetLabels(labels)
          /\ m_edgeModel' = [m_edgeModel EXCEPT !.text = text]
    /\ last' = Done("labelTextChanged")
    /\ UNCHANGED << restVars, configVars, lifecycle, nodeVars, m_line, arrowVars, inScene,
                    m_labelVisibilityTimer, dotVars >>

\* Edge::setText
setText ==
    /\ Alive
    /\ \E text \in Texts :
          /\ m_edgeModel' = [m_edgeModel EXCEPT !.text = text]
          /\ IF m_enableLabel
             THEN LET visible == (text # EmptyText)
                  IN /\ \E labels \in { setLabelVisible([m_label EXCEPT !.text = text],
                                                         m_dummyLabel, visible,
                                                         DefaultReason, m_sourceNode,
                                                         m_targetNode) } :
                           SetLabels(labels)
                     /\ last' = [Done("setText") EXCEPT !.vcr = DefaultReason,
                                                        !.visible = visible]
             ELSE /\ last' = Done("setText")
                  /\ UNCHANGED labelVars
    /\ UNCHANGED << restVars, configVars, lifecycle, nodeVars, m_line, arrowVars, inScene,
                    m_labelVisibilityTimer, dotVars >>

\* A decay animation runs to its end.
SourceAnimationFinished ==
    /\ Alive
    /\ m_sourceDotSizeAnimation
    /\ m_sourceDotSizeAnimation' = FALSE
    /\ last' = Done("sourceAnimationFinished")
    /\ UNCHANGED << restVars, configVars, lifecycle, nodeVars, m_edgeModel, m_line, arrowVars, labelVars,
                    inScene, m_labelVisibilityTimer, m_targetDotSizeAnimation,
                    m_previousRelativeSourcePos, m_previousRelativeTargetPos,
                    m_sourceDot, m_targetDot >>

TargetAnimationFinished ==
    /\ Alive
    /\ m_targetDotSizeAnimation
    /\ m_targetDotSizeAnimation' = FALSE
    /\ last' = Done("targetAnimationFinished")
    /\ UNCHANGED << restVars, configVars, lifecycle, nodeVars, m_edgeModel, m_line, arrowVars, labelVars,
                    inScene, m_labelVisibilityTimer, m_sourceDotSizeAnimation,
                    m_previousRelativeSourcePos, m_previousRelativeTargetPos,
                    m_sourceDot, m_targetDot >>

\* This edge, as the nodes know it.
ThisEdge == "edge"

\* Node::addGraphicsEdge / Node::removeGraphicsEdge
AddGraphicsEdgeTo(node, edge) ==
    [node EXCEPT !.graphicsEdges = @ \cup { edge }]
RemoveGraphicsEdgeFrom(node, edge) ==
    [node EXCEPT !.graphicsEdges = @ \ { edge }]

\* The owner of the edge registers it with its two nodes.
AddGraphicsEdge ==
    /\ Alive
    /\ ThisEdge \notin m_sourceNode.graphicsEdges
    /\ m_sourceNode' = AddGraphicsEdgeTo(m_sourceNode, ThisEdge)
    /\ m_targetNode' = AddGraphicsEdgeTo(m_targetNode, ThisEdge)
    /\ last' = Done("addGraphicsEdge")
    /\ UNCHANGED << restVars, configVars, lifecycle, m_edgeModel, m_line, arrowVars, labelVars,
                    inScene, m_labelVisibilityTimer, dotVars >>

\* A faulty destructor that takes the edge from its nodes in test mode too:
\* the frame property of the nodes must tell it from the real one.
DestructorInTestModeToo ==
    /\ Alive
    /\ lifecycle' = "destroyed"
    /\ m_sourceDotSizeAnimation' = FALSE
    /\ m_targetDotSizeAnimation' = FALSE
    /\ m_sourceNode' = RemoveGraphicsEdgeFrom(m_sourceNode, ThisEdge)
    /\ m_targetNode' = RemoveGraphicsEdgeFrom(m_targetNode, ThisEdge)
    /\ last' = Done("~Edge")
    /\ UNCHANGED << restVars, configVars, m_edgeModel, m_line, arrowVars, labelVars, inScene,
                    m_labelVisibilityTimer, m_previousRelativeSourcePos,
                    m_previousRelativeTargetPos, m_sourceDot, m_targetDot >>

\* Edge::~Edge
Destructor ==
    /\ Alive
    /\ lifecycle' = "destroyed"
    /\ IF ~testMode
       THEN /\ m_sourceDotSizeAnimation' = FALSE
            /\ m_targetDotSizeAnimation' = FALSE
            /\ m_sourceNode' = RemoveGraphicsEdgeFrom(m_sourceNode, ThisEdge)
            /\ m_targetNode' = RemoveGraphicsEdgeFrom(m_targetNode, ThisEdge)
       ELSE UNCHANGED << nodeVars, m_sourceDotSizeAnimation, m_targetDotSizeAnimation >>
    /\ last' = Done("~Edge")
    /\ UNCHANGED << restVars, configVars, m_edgeModel, m_line, arrowVars, labelVars, inScene,
                    m_labelVisibilityTimer, m_previousRelativeSourcePos,
                    m_previousRelativeTargetPos, m_sourceDot, m_targetDot >>

\* m_label is the null pointer: the edge was built with enableLabel false.
LabelIsNull == ~m_enableLabel

\* A call through m_label.  Through a null m_label the behaviour is undefined:
\* the program crashes, or it goes on with its state as it was.
ThroughLabel(op) ==
    /\ lifecycle' \in IF LabelIsNull THEN { "crashed", "alive" } ELSE { "alive" }
    /\ last' = Done(op)

\* Edge::highlightText
highlightText ==
    /\ Alive
    /\ IF ~testMode
       THEN ThroughLabel("highlightText")
       ELSE /\ last' = Done("highlightText")
            /\ UNCHANGED lifecycle
    /\ UNCHANGED << restVars, configVars, nodeVars, m_edgeModel, m_line, arrowVars, labelVars,
                    inScene, m_labelVisibilityTimer, dotVars >>

\* Edge::translatedLabelBoundingRect
translatedLabelBoundingRect ==
    /\ Alive
    /\ ThroughLabel("translatedLabelBoundingRect")
    /\ UNCHANGED << restVars, configVars, nodeVars, m_edgeModel, m_line, arrowVars, labelVars,
                    inScene, m_labelVisibilityTimer, dotVars >>

\* Edge::unselectText
unselectText ==
    /\ Alive
    /\ ThroughLabel("unselectText")
    /\ UNCHANGED << restVars, configVars, nodeVars, m_edgeModel, m_line, arrowVars, labelVars,
                    inScene, m_labelVisibilityTimer, dotVars >>

\* ------------------------------------------------------------------------
\* Operations of the Grid
\* ------------------------------------------------------------------------

\* Grid::setSize
setSize ==
    /\ gridPc = "idle"
    /\ \E size \in GridSizes :
          /\ m_size' = size
          /\ gridLast' = GridDone("setSize", size, Origin, Origin, Len(m_lines))
    /\ UNCHANGED << edgeVars, serializerVars, m_lines, gridPc, gridRect, gridX >>

\* Grid::snapToGrid
SnapToGrid ==
    /\ gridPc = "idle"
    /\ \E in \in SnapPoints :
          gridLast' = GridDone("snapToGrid", m_size, in, snapToGrid(m_size, in),
                               Len(m_lines))
    /\ UNCHANGED << edgeVars, serializerVars, m_size, m_lines, gridPc, gridRect, gridX >>

\* Grid::calculateLines is called: the lines are cleared and, with a size
\* other than 0, x starts at the snapped left edge; with size 0 the call
\* returns.
CalculateLines ==
    /\ gridPc = "idle"
    /\ \E sceneRect \in SceneRects :
          /\ gridRect' = sceneRect
          /\ gridX' = IF m_size # 0
                      THEN snapToGrid(m_size, Pt(sceneRect.left, sceneRect.top)).x
                      ELSE 0
    /\ m_lines' = << >>
    /\ gridPc' = IF m_size # 0 THEN "vertical" ELSE "idle"
    /\ gridLast' = GridDone("calculateLines", m_size, Origin, Origin, Len(m_lines))
    /\ UNCHANGED << edgeVars, serializerVars, m_size >>

\* One test of `while (x < sceneRect.right())`: a vertical line and a step
\* of x, or the start of y at the snapped top edge.
VerticalLine ==
    /\ gridPc = "vertical"
    /\ IF gridX < Right(gridRect)
       THEN /\ Len(m_lines) < MaxLines
            /\ m_lines' = Append(m_lines, QLineF(Pt(gridX, gridRect.top),
                                                 Pt(gridX, Bottom(gridRect))))
            /\ gridX' = gridX + m_size * UnitsPerPixel
            /\ UNCHANGED gridPc
       ELSE /\ gridX' = snapToGrid(m_size, Pt(gridRect.left, gridRect.top)).y
            /\ gridPc' = "horizontal"
            /\ UNCHANGED m_lines
    /\ UNCHANGED << edgeVars, serializerVars, m_size, gridRect, gridLast >>

\* One test of `while (y < sceneRect.bottom())`: a horizontal line and a
\* step of y, or the return of the lines.
HorizontalLine ==
    /\ gridPc = "horizontal"
    /\ IF gridX < Bottom(gridRect)
       THEN /\ Len(m_lines) < MaxLines
            /\ m_lines' = Append(m_lines, QLineF(Pt(gridRect.left, gridX),
                                                 Pt(Right(gridRect), gridX)))
            /\ gridX' = gridX + m_size * UnitsPerPixel
            /\ UNCHANGED gridPc
       ELSE /\ gridPc' = "idle"
            /\ UNCHANGED << m_lines, gridX >>
    /\ UNCHANGED << edgeVars, serializerVars, m_size, gridRect, gridLast >>

\* ------------------------------------------------------------------------
\* Operations of the Serializer
\* ------------------------------------------------------------------------

\* The owner of the mind map adds a node to its graph, or replaces one.
AddNode ==
    /\ \E node \in MindMapNodes :
          /\ AddNodeTo(m_mindMapData, node) # m_mindMapData
          /\ m_mindMapData' = AddNodeTo(m_mindMapData, node)
    /\ UNCHANGED << edgeVars, gridVars, document, data >>

\* Serializer::toXml
ToXml ==
    /\ \E nodes \in IterationsOf(m_mindMapData) :
          document' = toXml(nodes, m_mindMapData)
    /\ UNCHANGED << edgeVars, gridVars, m_mindMapData, data >>

\* A document comes from elsewhere (a file).
OpenDocument ==
    /\ \E doc \in ForeignDocuments : document' = doc
    /\ UNCHANGED << edgeVars, gridVars, m_mindMapData, data >>

\* Serializer::fromXml
FromXml ==
    /\ data' = fromXml(document)
    /\ UNCHANGED << edgeVars, gridVars, m_mindMapData, document >>

Next ==
    \/ AddToScene
    \/ removeFromScene
    \/ NodesMoved
    \/ UpdateLine
    \/ setEdgeWidth
    \/ setArrowSize
    \/ setArrowMode
    \/ setDashedLine
    \/ setReversed
    \/ SetLabelVisible
    \/ hoverEnterEvent
    \/ hoverLeaveEvent
    \/ TimerTimeout
    \/ LabelHoverEntered
    \/ LabelVisibilityTimeout
    \/ LabelFocusChanged
    \/ LabelTextChanged
    \/ setText
    \/ SourceAnimationFinished
    \/ TargetAnimationFinished
    \/ AddGraphicsEdge
    \/ highlightText
    \/ translatedLabelBoundingRect
    \/ unselectText
    \/ Destructor
    \/ setSize
    \/ SnapToGrid
    \/ CalculateLines
    \/ VerticalLine
    \/ HorizontalLine
    \/ AddNode
    \/ ToXml
    \/ OpenDocument
    \/ FromXml

Spec == Init /\ [][Next]_vars


\* ------------------------------------------------------------------------
\* Specifications of the label, the connection dots and the arrowheads
\* ------------------------------------------------------------------------

\* An edge with a label between two square nodes, in a running application
\* (animations, and with them hover events, are on).
InitLabel ==
    /\ Init
    /\ ~testMode /\ m_enableLabel /\ m_enableAnimations
    /\ m_sourceNode.cornerRadius = 0 /\ m_targetNode.cornerRadius = 0

NextLabel ==
    \/ AddToScene
    \/ NodesMoved
    \/ UpdateLine
    \/ SetLabelVisible
    \/ hoverEnterEvent
    \/ hoverLeaveEvent
    \/ TimerTimeout
    \/ LabelHoverEntered
    \/ LabelVisibilityTimeout
    \/ LabelFocusChanged
    \/ LabelTextChanged
    \/ setText

SpecLabel == InitLabel /\ [][NextLabel]_vars

\* An animated edge without a label, between square or rounded nodes.
InitDots ==
    /\ Init
    /\ ~testMode /\ ~m_enableLabel /\ m_enableAnimations
    /\ m_sourceNode.cornerRadius = m_targetNode.cornerRadius

NextDots ==
    \/ NodesMoved
    \/ UpdateLine
    \/ setEdgeWidth
    \/ setArrowSize
    \/ SourceAnimationFinished
    \/ TargetAnimationFinished

SpecDots == InitDots /\ [][NextDots]_vars

\* An animated edge without a label between two square nodes, whose arrow
\* mode and direction change.
InitArrows ==
    /\ Init
    /\ ~testMode /\ ~m_enableLabel /\ m_enableAnimations
    /\ m_sourceNode.cornerRadius = 0 /\ m_targetNode.cornerRadius = 0

NextArrows ==
    \/ NodesMoved
    \/ UpdateLine
    \/ setArrowMode
    \/ setReversed

SpecArrows == InitArrows /\ [][NextArrows]_vars

\* An edge without label and animations between two square nodes that stay
\* where they are, in the application or in test mode, whose style and
\* direction change.
InitStyle ==
    /\ Init
    /\ ~m_enableLabel /\ ~m_enableAnimations
    /\ m_sourceNode.cornerRadius = 0 /\ m_targetNode.cornerRadius = 0

NextStyle ==
    \/ UpdateLine
    \/ setEdgeWidth
    \/ setArrowSize
    \/ setArrowMode
    \/ setDashedLine
    \/ setReversed

SpecStyle == InitStyle /\ [][NextStyle]_vars

\* An edge without label and animations between square or rounded nodes that
\* move, whose width changes.
InitLine ==
    /\ Init
    /\ ~testMode /\ ~m_enableLabel /\ ~m_enableAnimations

NextLine ==
    \/ NodesMoved
    \/ UpdateLine
    \/ setEdgeWidth

SpecLine == InitLine /\ [][NextLine]_vars

\* An edge between two square nodes that stay where they are, with or without
\* label and animations, in the application or in test mode, from its
\* construction to its destruction.
InitLife ==
    /\ Init
    /\ m_sourceNode.cornerRadius = 0 /\ m_targetNode.cornerRadius = 0

NextLife ==
    \/ AddGraphicsEdge
    \/ AddToScene
    \/ removeFromScene
    \/ UpdateLine
    \/ setArrowMode
    \/ SetLabelVisible
    \/ highlightText
    \/ translatedLabelBoundingRect
    \/ unselectText
    \/ Destructor

SpecLife == InitLife /\ [][NextLife]_vars

\* An edge with a label between two square nodes, in a running application,
\* that the scene takes and gives back while the mouse and the focus come
\* and go.
InitScene ==
    /\ Init
    /\ ~testMode /\ m_enableLabel /\ m_enableAnimations
    /\ m_sourceNode.cornerRadius = 0 /\ m_targetNode.cornerRadius = 0

NextScene ==
    \/ AddToScene
    \/ removeFromScene
    \/ UpdateLine
    \/ setText
    \/ SetLabelVisible
    \/ hoverEnterEvent
    \/ hoverLeaveEvent
    \/ TimerTimeout
    \/ LabelHoverEntered
    \/ LabelFocusChanged

SpecScene == InitScene /\ [][NextScene]_vars

\* A grid beside an edge that nothing happens to.  A call of calculateLines
\* that has begun goes on: its loops take their next step.
InitGrid ==
    /\ Init
    /\ ~testMode /\ ~m_enableLabel /\ ~m_enableAnimations
    /\ m_sourceNode.cornerRadius = 0 /\ m_targetNode.cornerRadius = 0

NextGrid ==
    \/ setSize
    \/ SnapToGrid
    \/ CalculateLines
    \/ VerticalLine
    \/ HorizontalLine

SpecGrid ==
    /\ InitGrid /\ [][NextGrid]_vars
    /\ WF_vars(VerticalLine) /\ WF_vars(HorizontalLine)

\* A serializer of a mind map that its owner fills, beside an edge and a
\* grid that nothing happens to.
InitSerializer ==
    /\ Init
    /\ ~testMode /\ ~m_enableLabel /\ ~m_enableAnimations
    /\ m_sourceNode.cornerRadius = 0 /\ m_targetNode.cornerRadius = 0

NextSerializer ==
    \/ AddNode
    \/ ToXml
    \/ OpenDocument
    \/ FromXml

SpecSerializer == InitSerializer /\ [][NextSerializer]_vars

\* ------------------------------------------------------------------------
\* The label state machine in the words of the specification
\* ------------------------------------------------------------------------

\* The state of the label state machine for the two visibility flags; "Both"
\* is no state of the machine.
StateOf(label, dummy) ==
    CASE label.visible /\ ~dummy.visible -> "Visible"
      [] ~label.visible /\ dummy.visible -> "DummyVisible"
      [] ~label.visible /\ ~dummy.visible -> "Hidden"
      [] label.visible /\ dummy.visible -> "Both"

\* The box of a label item, placed at item.pos, and the box of a node have no
\* inner point in common.
BoxClearOf(item, node) ==
    LET width == LabelMargin + CharWidth * Len(item.text)
    IN \/ item.pos.x + width <= node.pos.x - NodeHalf
       \/ node.pos.x + NodeHalf <= item.pos.x
       \/ item.pos.y + LabelHeight <= node.pos.y - NodeHalf
       \/ node.pos.y + NodeHalf <= item.pos.y

\* The box of the item overlaps neither endpoint node.
OverlapsNoNode(item, source, target) ==
    BoxClearOf(item, source) /\ BoxClearOf(item, target)

\* The state AvailableSpaceChanged leads to according to the specification,
\* which looks at the boxes and the texts only.
SpaceStateBySpec(label, dummy, source, target) ==
    IF OverlapsNoNode(label, source, target) /\ Len(label.text) > 0
    THEN "Visible"
    ELSE IF OverlapsNoNode(dummy, source, target) /\ Len(dummy.text) < Len(label.text)
         THEN "DummyVisible"
         ELSE "Hidden"

\* The same for items that fit only when they are in a scene.
SpaceState(label, dummy, source, target, labelInScene, dummyInScene) ==
    IF labelInScene /\ OverlapsNoNode(label, source, target) /\ Len(label.text) > 0
    THEN "Visible"
    ELSE IF /\ dummyInScene
            /\ OverlapsNoNode(dummy, source, target)
            /\ Len(dummy.text) < Len(label.text)
         THEN "DummyVisible"
         ELSE "Hidden"

\* The hide condition of the Timeout transition and the eligibility of the
\* dummy label, in the state the transition starts from.
LabelFits == m_label.inScene /\ OverlapsNoNode(m_label, m_sourceNode, m_targetNode)
HideCondition ==
    /\ Len(m_label.text) = 0 \/ (Len(m_label.text) > 0 /\ ~LabelFits)
    /\ ~m_label.hasFocus
DummyEligible ==
    /\ inScene /\ OverlapsNoNode(m_dummyLabel, m_sourceNode, m_targetNode)
    /\ Len(m_dummyLabel.text) < Len(m_label.text)

\* The step ran setLabelVisible with the reason `vcr`.
RanWithReason(vcr) == m_enableLabel /\ last'.vcr = vcr

\* C1: on an edge with the label enabled, the label and the dummy label are
\* never both visible.
C1_NeverBothVisible ==
    m_enableLabel => ~(m_label.visible /\ m_dummyLabel.visible)

\* C2: a setLabelVisible call with the reason AvailableSpaceChanged leaves the
\* state the specification names, for all boxes and texts and whatever the
\* state was before: Visible if the label is in a scene, its box overlaps
\* neither node and its text is not empty; otherwise DummyVisible if the dummy
\* is in a scene, its box overlaps neither node and its text is strictly
\* shorter than the label's; otherwise Hidden.
C2_AvailableSpaceChanged ==
    [][RanWithReason("AvailableSpaceChanged") =>
          StateOf(m_label', m_dummyLabel')
             = SpaceState(m_label', m_dummyLabel', m_sourceNode', m_targetNode',
                          m_label'.inScene, inScene')]_vars

\* C2 as the specification states it: the result follows from the boxes and
\* the texts alone.
C2_AvailableSpaceChangedAsStated ==
    [][RanWithReason("AvailableSpaceChanged") =>
          StateOf(m_label', m_dummyLabel')
             = SpaceStateBySpec(m_label', m_dummyLabel', m_sourceNode',
                                m_targetNode')]_vars

\* A geometry change in the scene has left the dummy label shown: the label
\* has a text longer than the dummy's and overlaps a node, the dummy does not.
C2_Witness ==
    /\ m_enableLabel
    /\ last.op = "nodesMoved" /\ last.vcr = "AvailableSpaceChanged"
    /\ m_label.inScene
    /\ ~OverlapsNoNode(m_label, m_sourceNode, m_targetNode)
    /\ OverlapsNoNode(m_dummyLabel, m_sourceNode, m_targetNode)
    /\ StateOf(m_label, m_dummyLabel) = "DummyVisible"

\* C3: a setLabelVisible call with the reason Explicit and the argument v
\* leaves the state Visible when v is true and the state Hidden when v is
\* false.
C3_ExplicitRequest ==
    [][RanWithReason("Explicit") =>
          StateOf(m_label', m_dummyLabel')
             = IF last'.visible THEN "Visible" ELSE "Hidden"]_vars

\* C4: a hover entry, on the edge or on the label, leaves the state Visible,
\* the label detached from the edge and no hide timer pending.
C4_HoverEntry ==
    [][m_enableLabel /\ last'.op \in { "hoverEnterEvent", "labelHoverEntered" } =>
          /\ StateOf(m_label', m_dummyLabel') = "Visible"
          /\ ~m_label'.parentIsEdge
          /\ ~m_labelVisibilityTimer']_vars

C6_TimeoutFallback ==
    [][RanWithReason("Timeout") /\ ~last'.visible =>
          IF HideCondition
          THEN /\ ~m_label'.visible
               /\ m_dummyLabel'.visible = DummyEligible
          ELSE /\ m_label'.visible = m_label.visible
               /\ m_dummyLabel'.visible = m_dummyLabel.visible]_vars

\* C6 as the specification states it: when the hide condition does not hold
\* and the dummy is eligible, the state becomes DummyVisible.
C6_TimeoutFallbackAsStated ==
    [][RanWithReason("Timeout") /\ ~last'.visible /\ ~HideCondition /\ DummyEligible =>
          StateOf(m_label', m_dummyLabel') = "DummyVisible"]_vars

\* A Timeout call has met a visible label whose text fits, with an eligible
\* dummy: the hide condition did not hold and the label is still shown.
C6_Witness ==
    /\ m_enableLabel
    /\ last.op = "setLabelVisible" /\ last.vcr = "Timeout" /\ ~last.visible
    /\ ~HideCondition /\ DummyEligible
    /\ StateOf(m_label, m_dummyLabel) = "Visible"

\* ------------------------------------------------------------------------
\* The connection dots and the arrowheads in the words of the specification
\* ------------------------------------------------------------------------

\* The step recomputed the geometry (Edge::updateLine ran).
Recomputed == last'.op \in { "updateLine", "nodesMoved" }

\* C7: on a geometry recompute with animations, an endpoint's animation is
\* restarted exactly if the endpoint's position relative to its node differs
\* from the recorded one, which then becomes the new position; otherwise the
\* animation and the recorded position stay as they are.  A translation of
\* node and endpoint by the same vector restarts nothing, and each endpoint
\* is decided on its own.
C7_PulseRetrigger ==
    [][Recomputed /\ m_enableAnimations =>
          LET newSource == PSub(m_line'.p1, m_sourceNode'.pos)
              newTarget == PSub(m_line'.p2, m_targetNode'.pos)
          IN /\ last'.sourceRestarted <=> (newSource # m_previousRelativeSourcePos)
             /\ last'.targetRestarted <=> (newTarget # m_previousRelativeTargetPos)
             /\ IF last'.sourceRestarted
                THEN m_sourceDotSizeAnimation' /\ m_previousRelativeSourcePos' = newSource
                ELSE /\ m_sourceDotSizeAnimation' = m_sourceDotSizeAnimation
                     /\ m_previousRelativeSourcePos' = m_previousRelativeSourcePos
             /\ IF last'.targetRestarted
                THEN m_targetDotSizeAnimation' /\ m_previousRelativeTargetPos' = newTarget
                ELSE /\ m_targetDotSizeAnimation' = m_targetDotSizeAnimation
                     /\ m_previousRelativeTargetPos' = m_previousRelativeTargetPos
             /\ ( /\ m_previousRelativeSourcePos = PSub(m_line.p1, m_sourceNode.pos)
                  /\ PSub(m_line'.p1, m_line.p1) = PSub(m_sourceNode'.pos, m_sourceNode.pos) )
                => ~last'.sourceRestarted
             /\ ( /\ m_previousRelativeTargetPos = PSub(m_line.p2, m_targetNode.pos)
                  /\ PSub(m_line'.p2, m_line.p2) = PSub(m_targetNode'.pos, m_targetNode.pos) )
                => ~last'.targetRestarted]_vars

\* A recompute has restarted the animation of the target and left the
\* running animation of the source alone.
C7_Witness ==
    /\ m_enableAnimations
    /\ last.op = "updateLine"
    /\ ~last.sourceRestarted /\ last.targetRestarted
    /\ m_sourceDotSizeAnimation /\ m_targetDotSizeAnimation
    /\ m_previousRelativeSourcePos = PSub(m_line.p1, m_sourceNode.pos)

\* Line and visibility of the four wings
WingGeometry ==
    << << m_arrowheadBeginLeft.p1, m_arrowheadBeginLeft.p2, m_arrowheadBeginLeft.visible >>,
       << m_arrowheadBeginRight.p1, m_arrowheadBeginRight.p2, m_arrowheadBeginRight.visible >>,
       << m_arrowheadEndLeft.p1, m_arrowheadEndLeft.p2, m_arrowheadEndLeft.visible >>,
       << m_arrowheadEndRight.p1, m_arrowheadEndRight.p2, m_arrowheadEndRight.visible >> >>

\* C8: updateLine, called again after a recompute with the nodes, the style
\* and the reversed flag as they were, leaves the segment and the four wings
\* (lines and visibility) as they are and restarts no animation.
C8_RecomputeIdempotent ==
    [][/\ last.op \in { "updateLine", "nodesMoved" }
       /\ last'.op = "updateLine"
       /\ m_edgeModel' = m_edgeModel
       /\ m_sourceNode' = m_sourceNode /\ m_targetNode' = m_targetNode
       => /\ m_line'.p1 = m_line.p1 /\ m_line'.p2 = m_line.p2
          /\ WingGeometry' = WingGeometry
          /\ ~last'.sourceRestarted /\ ~last'.targetRestarted]_vars

\* A recompute of an edge with two arrowheads and running animations has
\* restarted nothing.
C8_Witness ==
    /\ last.op = "updateLine"
    /\ ~last.sourceRestarted /\ ~last.targetRestarted
    /\ m_sourceDotSizeAnimation /\ m_targetDotSizeAnimation
    /\ m_edgeModel.arrowMode = "Double"
    /\ m_line.p1 # m_line.p2
    /\ m_arrowheadEndLeft.visible

\* The step recomputed the arrowheads (Edge::updateArrowhead ran).
ArrowheadsRecomputed == last'.op \in { "updateLine", "nodesMoved", "updateArrowhead" }

\* C9: when the arrowheads are recomputed in the mode Hidden, the four wings
\* are hidden, whatever they were before and whatever the reversed flag is.
C9_HiddenMode ==
    [][ArrowheadsRecomputed /\ m_edgeModel'.arrowMode = "Hidden" =>
          /\ ~m_arrowheadBeginLeft'.visible /\ ~m_arrowheadBeginRight'.visible
          /\ ~m_arrowheadEndLeft'.visible /\ ~m_arrowheadEndRight'.visible]_vars

\* The arrowheads of a reversed edge were recomputed in the mode Hidden after
\* the wings of both ends had been drawn.
C9_Witness ==
    /\ last.op \in { "updateLine", "nodesMoved", "updateArrowhead" }
    /\ m_edgeModel.arrowMode = "Hidden" /\ m_edgeModel.reversed
    /\ m_arrowheadBeginLeft.p1 # m_arrowheadBeginLeft.p2
    /\ m_arrowheadEndLeft.p1 # m_arrowheadEndLeft.p2
    /\ ~m_arrowheadBeginLeft.visible /\ ~m_arrowheadEndLeft.visible

\* The direction of the segment at its begin: from p1 to p2, turned round on
\* a reversed edge; a segment of length zero points along the x axis.
LocalDirection(line, reversed) ==
    LET v == IF line.p1 = line.p2 THEN Pt(1, 0) ELSE PSub(line.p2, line.p1)
    IN IF reversed THEN PNeg(v) ELSE v

Dot(a, b) == a.x * b.x + a.y * b.y
Cross(a, b) == a.x * b.y - a.y * b.x

\* The wing starts at `point`, is arrowSize long and stands at 150 degrees
\* (side = 1) or -150 degrees (side = -1) from the direction v, up to the
\* rounding of the fixed-point geometry: 2 units in the length, 1 percent in
\* the cosine and the sine of the angle.
WingAt(wing, point, v, side, arrowSize) ==
    LET w == PSub(wing.p2, wing.p1)
        len == ISqrt(Dot(v, v))
    IN /\ wing.p1 = point
       /\ (arrowSize - 2) * (arrowSize - 2) <= Dot(w, w)
       /\ Dot(w, w) <= (arrowSize + 2) * (arrowSize + 2)
       /\ Abs(Milli * Dot(v, w) - Cos150 * arrowSize * len) <= 10 * arrowSize * (len + 1)
       /\ Abs(Milli * Cross(v, w) - side * Sin150 * arrowSize * len)
             <= 10 * arrowSize * (len + 1)

\* The wings of the Single mode: two shown wings at the begin of the segment,
\* the two wings of the end hidden.
SingleArrowhead(line, model, beginLeft, beginRight, endLeft, endRight) ==
    LET point == IF model.reversed THEN line.p1 ELSE line.p2
        v == LocalDirection(line, model.reversed)
    IN /\ beginLeft.visible /\ beginRight.visible
       /\ WingAt(beginLeft, point, v, 1, model.arrowSize)
       /\ WingAt(beginRight, point, v, -1, model.arrowSize)
       /\ ~endLeft.visible /\ ~endRight.visible

\* C10: when the arrowheads are recomputed in the mode Single, one end of the
\* segment (p2, or p1 on a reversed edge) carries two shown wings that start
\* there, are arrowSize long and stand at +150 and -150 degrees from the local
\* direction, and the two wings of the other end are hidden, whatever the
\* mode was before.
C10_SingleMode ==
    [][ArrowheadsRecomputed /\ m_edgeModel'.arrowMode = "Single" =>
          SingleArrowhead(m_line', m_edgeModel', m_arrowheadBeginLeft',
                          m_arrowheadBeginRight', m_arrowheadEndLeft',
                          m_arrowheadEndRight')]_vars

\* The arrowheads of a reversed, slanted edge were recomputed in the mode
\* Single after the wings of the end had been drawn.
C10_Witness ==
    /\ last.op \in { "updateLine", "nodesMoved", "updateArrowhead" }
    /\ m_edgeModel.arrowMode = "Single" /\ m_edgeModel.reversed
    /\ m_line.p1.x # m_line.p2.x /\ m_line.p1.y # m_line.p2.y
    /\ m_arrowheadEndLeft.p1 # m_arrowheadEndLeft.p2
    /\ m_arrowheadBeginLeft.visible /\ ~m_arrowheadEndLeft.visible

\* The end of the segment that lies nearer to the centre of the node.
NearerEnd(line, node) ==
    IF Dist2(line.p1, node.pos) <= Dist2(line.p2, node.pos) THEN line.p1 ELSE line.p2

\* The segment runs from the source to the target: p1 lies nearer to the
\* source than p2, and p2 nearer to the target than p1.
RunsFromSourceToTarget(line, source, target) ==
    /\ Dist2(line.p1, source.pos) < Dist2(line.p2, source.pos)
    /\ Dist2(line.p2, target.pos) < Dist2(line.p1, target.pos)

\* C11: when the arrowheads are recomputed in the mode Single, the two shown
\* wings start at p2, the end of the segment built from the target's anchor,
\* when reversed is false, and at p1, the end built from the source's anchor,
\* when reversed is true; on a segment that runs from the source to the
\* target that is the end nearer the target, and nearer the source when
\* reversed.
C11_WingedEnd ==
    [][ArrowheadsRecomputed /\ m_edgeModel'.arrowMode = "Single" =>
          /\ m_arrowheadBeginLeft'.visible /\ m_arrowheadBeginRight'.visible
          /\ m_arrowheadBeginLeft'.p1
                = (IF m_edgeModel'.reversed THEN m_line'.p1 ELSE m_line'.p2)
          /\ m_arrowheadBeginRight'.p1 = m_arrowheadBeginLeft'.p1
          /\ RunsFromSourceToTarget(m_line', m_sourceNode', m_targetNode')
                => m_arrowheadBeginLeft'.p1
                     = IF m_edgeModel'.reversed
                       THEN NearerEnd(m_line', m_sourceNode')
                       ELSE NearerEnd(m_line', m_targetNode')]_vars

\* C11 as the specification states it: the winged end is the end nearer the
\* source when reversed is false, and the end nearer the target when reversed
\* is true.
C11_WingedEndAsStated ==
    [][/\ ArrowheadsRecomputed /\ m_edgeModel'.arrowMode = "Single"
       /\ RunsFromSourceToTarget(m_line', m_sourceNode', m_targetNode')
       => m_arrowheadBeginLeft'.p1
            = IF m_edgeModel'.reversed
              THEN NearerEnd(m_line', m_targetNode')
              ELSE NearerEnd(m_line', m_sourceNode')]_vars

\* setReversed(true) in the mode Single has left the wings at the end of the
\* segment nearer the source.
C11_Witness ==
    /\ last.op = "updateArrowhead"
    /\ m_edgeModel.arrowMode = "Single" /\ m_edgeModel.reversed
    /\ RunsFromSourceToTarget(m_line, m_sourceNode, m_targetNode)
    /\ m_arrowheadBeginLeft.visible /\ m_arrowheadBeginRight.visible
    /\ m_arrowheadBeginLeft.p1 = NearerEnd(m_line, m_sourceNode)
    /\ m_arrowheadBeginLeft.p1 # m_arrowheadBeginLeft.p2

\* The wings of the Double mode: two shown wings at each end of the segment,
\* at 150 and -150 degrees from the direction at that end.
DoubleArrowhead(line, model, beginLeft, beginRight, endLeft, endRight) ==
    LET pointBegin == IF model.reversed THEN line.p1 ELSE line.p2
        pointEnd == IF model.reversed THEN line.p2 ELSE line.p1
        v == LocalDirection(line, model.reversed)
    IN /\ beginLeft.visible /\ beginRight.visible
       /\ endLeft.visible /\ endRight.visible
       /\ WingAt(beginLeft, pointBegin, v, 1, model.arrowSize)
       /\ WingAt(beginRight, pointBegin, v, -1, model.arrowSize)
       /\ WingAt(endLeft, pointEnd, PNeg(v), 1, model.arrowSize)
       /\ WingAt(endRight, pointEnd, PNeg(v), -1, model.arrowSize)

\* The line of a wing
LineOf(wing) == << wing.p1, wing.p2 >>

\* C12: when the arrowheads are recomputed in the mode Double, the four wings
\* are shown, two at each end of the segment, arrowSize long and at 150 and
\* -150 degrees from the direction at their end; setReversed with the other
\* value gives the wings of the begin the lines the wings of the end had and
\* the other way round, so that the shown wings are the same four lines.
C12_DoubleMode ==
    [][ArrowheadsRecomputed /\ m_edgeModel'.arrowMode = "Double" =>
          /\ DoubleArrowhead(m_line', m_edgeModel', m_arrowheadBeginLeft',
                             m_arrowheadBeginRight', m_arrowheadEndLeft',
                             m_arrowheadEndRight')
          /\ ( /\ last'.op = "updateArrowhead"
               /\ last.op \in { "updateLine", "nodesMoved", "updateArrowhead" }
               /\ m_edgeModel.arrowMode = "Double"
               /\ m_edgeModel'.reversed # m_edgeModel.reversed )
             => /\ LineOf(m_arrowheadBeginLeft') = LineOf(m_arrowheadEndLeft)
                /\ LineOf(m_arrowheadBeginRight') = LineOf(m_arrowheadEndRight)
                /\ LineOf(m_arrowheadEndLeft') = LineOf(m_arrowheadBeginLeft)
                /\ LineOf(m_arrowheadEndRight') = LineOf(m_arrowheadBeginRight)]_vars

\* setReversed(true) in the mode Double has left four shown wings on a slanted
\* segment, the wings of the begin at p1 and the wings of the end at p2.
C12_Witness ==
    /\ last.op = "updateArrowhead"
    /\ m_edgeModel.arrowMode = "Double" /\ m_edgeModel.reversed
    /\ m_line.p1.x # m_line.p2.x /\ m_line.p1.y # m_line.p2.y
    /\ m_arrowheadBeginLeft.visible /\ m_arrowheadBeginRight.visible
    /\ m_arrowheadEndLeft.visible /\ m_arrowheadEndRight.visible
    /\ m_arrowheadBeginLeft.p1 = m_line.p1 /\ m_arrowheadEndLeft.p1 = m_line.p2

\* ------------------------------------------------------------------------
\* The setters and the pens in the words of the specification
\* ------------------------------------------------------------------------

\* What a wing shows: its line, or nothing when it is hidden.
Shown(wing) == IF wing.visible THEN << wing.p1, wing.p2 >> ELSE << >>

ShownWings(w) ==
    << Shown(w.beginLeft), Shown(w.beginRight), Shown(w.endLeft), Shown(w.endRight) >>

\* The displayed geometry: the segment, the pen of the body line, the shown
\* wings and where they are.
Displayed(line, w) == << line.p1, line.p2, line.pen, ShownWings(w) >>

\* The geometry a full recompute displays for the nodes and the model.
FreshlyDisplayed(source, target, model, w) ==
    LET line == ComputeLine(source, target, model)
    IN << line.p1, line.p2, buildPen(model, FALSE),
          ShownWings(updateArrowhead(w, line, model)) >>

\* The step changed only the given field of the edge model.
Set(field) ==
    /\ m_edgeModel'[field] # m_edgeModel[field]
    /\ \A f \in DOMAIN m_edgeModel \ { field } : m_edgeModel'[f] = m_edgeModel[f]

\* C13: after setEdgeWidth and setArrowSize, and outside test mode after
\* setArrowMode and setDashedLine, the displayed geometry (segment, body pen,
\* shown wings) is the one a full recompute gives for the current style,
\* reversed flag and nodes; in test mode setArrowMode and setDashedLine leave
\* the displayed geometry as it was; setReversed leaves the segment and its
\* pen and shows the wings a recompute of the arrowheads gives for them.
C13_SettersRecompute ==
    [][/\ ( \/ Set("edgeWidth") \/ Set("arrowSize")
            \/ (~testMode /\ (Set("arrowMode") \/ Set("dashedLine"))) )
          => Displayed(m_line', CurrentWings')
               = FreshlyDisplayed(m_sourceNode', m_targetNode', m_edgeModel',
                                  CurrentWings')
       /\ (testMode /\ (Set("arrowMode") \/ Set("dashedLine")))
          => Displayed(m_line', CurrentWings') = Displayed(m_line, CurrentWings)
       /\ Set("reversed")
          => /\ m_line' = m_line
             /\ ShownWings(CurrentWings')
                  = ShownWings(updateArrowhead(CurrentWings, m_line, m_edgeModel'))
      ]_vars

\* C13 as the specification states it: after every setter, in any mode of
\* operation, the displayed geometry is the one a full recompute gives
\* (looked at for setters called on an edge whose geometry was up to date).
C13_SettersRecomputeAsStated ==
    [][/\ ( \/ Set("edgeWidth") \/ Set("arrowSize") \/ Set("arrowMode")
            \/ Set("dashedLine") \/ Set("reversed") )
       /\ Displayed(m_line, CurrentWings)
            = FreshlyDisplayed(m_sourceNode, m_targetNode, m_edgeModel, CurrentWings)
       => Displayed(m_line', CurrentWings')
            = FreshlyDisplayed(m_sourceNode', m_targetNode', m_edgeModel',
                               CurrentWings')]_vars

\* In test mode setArrowMode(Hidden) has run after a recompute: the mode is
\* stored and the wings of the recompute are still shown.
C13_Witness ==
    /\ testMode
    /\ last.op = "none"
    /\ m_edgeModel.arrowMode = "Hidden"
    /\ m_line.p1 # m_line.p2
    /\ m_arrowheadBeginLeft.visible
    /\ m_arrowheadBeginLeft.p1 # m_arrowheadBeginLeft.p2

\* The pens of the four wings have no dash pattern.
WingPensSolid ==
    /\ ~m_arrowheadBeginLeft.pen.dashed /\ ~m_arrowheadBeginRight.pen.dashed
    /\ ~m_arrowheadEndLeft.pen.dashed /\ ~m_arrowheadEndRight.pen.dashed

\* C16: in every state the pens of the four wings are solid; a recompute of
\* the line gives the body line the dash pattern exactly if dashedLine is set
\* then, and no other step changes the pen of the body line.
C16_SolidWings ==
    /\ []WingPensSolid
    /\ [][IF Recomputed
          THEN m_line'.pen.dashed = m_edgeModel'.dashedLine
          ELSE m_line'.pen = m_line.pen]_vars

\* A recompute of a dashed edge with two arrowheads: the body line is dashed,
\* the four shown wings have the width of the line and are solid.
C16_Witness ==
    /\ last.op = "updateLine"
    /\ m_edgeModel.dashedLine /\ m_line.pen.dashed
    /\ m_edgeModel.arrowMode = "Double"
    /\ m_arrowheadBeginLeft.visible /\ m_arrowheadEndRight.visible
    /\ m_arrowheadBeginLeft.pen.width = m_edgeModel.edgeWidth
    /\ ~m_arrowheadBeginLeft.pen.dashed /\ ~m_arrowheadEndRight.pen.dashed

\* ------------------------------------------------------------------------
\* The line construction in the words of the specification
\* ------------------------------------------------------------------------

\* The anchors of the two nodes in the scene, and whether they are corners.
SourceAnchor(source, target) ==
    PAdd(GetNearestEdgePoints(source, target).first.location, source.pos)
TargetAnchor(source, target) ==
    PAdd(GetNearestEdgePoints(source, target).second.location, target.pos)
SourceAnchorIsCorner(source, target) ==
    GetNearestEdgePoints(source, target).first.isCorner
TargetAnchorIsCorner(source, target) ==
    GetNearestEdgePoints(source, target).second.isCorner

\* `endpoint` is `anchor` moved by half of edgeWidth away from `centre`, on
\* the line through anchor and centre, up to the rounding of the fixed-point
\* geometry (2 units).
ShrunkByHalfWidth(endpoint, anchor, centre, edgeWidth) ==
    LET d == PSub(anchor, endpoint)
        c == PSub(centre, anchor)
        half == edgeWidth \div 2
    IN /\ (half - 2) * (half - 2) <= Dot(d, d)
       /\ Dot(d, d) <= (half + 2) * (half + 2)
       /\ Dot(d, c) > 0
       /\ Cross(d, c) * Cross(d, c) <= 4 * Dot(c, c)

\* C14: after a recompute with a target anchor that is not a corner, the end
\* p2 of the segment lies half of edgeWidth from the target's anchor, moved
\* against the direction from the anchor to the target's centre (p2 minus
\* direction2 x edgeWidth x 0.5), for the widths 1, 5 and 20; the end p1 is
\* the source's anchor when that anchor is not a corner either.
C14_SegmentShrink ==
    [][Recomputed /\ ~TargetAnchorIsCorner(m_sourceNode', m_targetNode') =>
          /\ m_edgeModel'.edgeWidth \in EdgeWidths
          /\ ShrunkByHalfWidth(m_line'.p2, TargetAnchor(m_sourceNode', m_targetNode'),
                               m_targetNode'.pos, m_edgeModel'.edgeWidth)
          /\ ~SourceAnchorIsCorner(m_sourceNode', m_targetNode')
                => m_line'.p1 = SourceAnchor(m_sourceNode', m_targetNode')]_vars

\* C14 as the specification states it: with a target anchor that is not a
\* corner the end p1 is the source's anchor.
C14_SegmentShrinkAsStated ==
    [][Recomputed /\ ~TargetAnchorIsCorner(m_sourceNode', m_targetNode') =>
          /\ ShrunkByHalfWidth(m_line'.p2, TargetAnchor(m_sourceNode', m_targetNode'),
                               m_targetNode'.pos, m_edgeModel'.edgeWidth)
          /\ m_line'.p1 = SourceAnchor(m_sourceNode', m_targetNode')]_vars

\* A recompute of an edge of width 20 between two square nodes that stand
\* diagonally: the anchors are no corners, p1 is the source's anchor and p2
\* is off the target's anchor in both coordinates.
C14_Witness ==
    /\ last.op \in { "updateLine", "nodesMoved" }
    /\ m_edgeModel.edgeWidth = 200
    /\ ~TargetAnchorIsCorner(m_sourceNode, m_targetNode)
    /\ ~SourceAnchorIsCorner(m_sourceNode, m_targetNode)
    /\ m_line.p1 = SourceAnchor(m_sourceNode, m_targetNode)
    /\ m_line.p2.x # TargetAnchor(m_sourceNode, m_targetNode).x
    /\ m_line.p2.y # TargetAnchor(m_sourceNode, m_targetNode).y

\* C15: after a recompute, an end of the segment is off its anchor by a
\* corner offset only if the anchor is a corner and the corner radius of the
\* node is greater than 0: otherwise p1 is the source's anchor and p2 is the
\* target's anchor shrunk by the width term alone; so it is for every pair of
\* nodes with corner radius 0.
C15_CornerOffset ==
    [][Recomputed =>
          /\ m_line'.p1 # SourceAnchor(m_sourceNode', m_targetNode')
                => /\ SourceAnchorIsCorner(m_sourceNode', m_targetNode')
                   /\ m_sourceNode'.cornerRadius > 0
          /\ ~ShrunkByHalfWidth(m_line'.p2, TargetAnchor(m_sourceNode', m_targetNode'),
                                m_targetNode'.pos, m_edgeModel'.edgeWidth)
                => /\ TargetAnchorIsCorner(m_sourceNode', m_targetNode')
                   /\ m_targetNode'.cornerRadius > 0
          /\ (m_sourceNode'.cornerRadius = 0 /\ m_targetNode'.cornerRadius = 0)
                => /\ m_line'.p1 = SourceAnchor(m_sourceNode', m_targetNode')
                   /\ ShrunkByHalfWidth(m_line'.p2,
                                        TargetAnchor(m_sourceNode', m_targetNode'),
                                        m_targetNode'.pos, m_edgeModel'.edgeWidth)]_vars

\* A recompute between a rounded source and a square target that stand
\* diagonally: p1 is off the corner anchor of the source, p2 is the anchor of
\* the target shrunk by the width term.
C15_Witness ==
    /\ last.op \in { "updateLine", "nodesMoved" }
    /\ m_sourceNode.cornerRadius > 0 /\ m_targetNode.cornerRadius = 0
    /\ SourceAnchorIsCorner(m_sourceNode, m_targetNode)
    /\ m_line.p1 # SourceAnchor(m_sourceNode, m_targetNode)
    /\ ShrunkByHalfWidth(m_line.p2, TargetAnchor(m_sourceNode, m_targetNode),
                         m_targetNode.pos, m_edgeModel.edgeWidth)

\* ------------------------------------------------------------------------
\* The life of the edge, the hide timer and the order of the recompute in
\* the words of the specification
\* ------------------------------------------------------------------------

\* Position, corner radius and attached edges of the two nodes
NodeState == << m_sourceNode, m_targetNode >>

\* C17: no operation of the edge but its destruction changes its source or
\* target node; the destruction leaves position and corner radius of the
\* nodes and, outside test mode, takes this edge, and nothing else, from the
\* attached edges of both nodes.
C17_NodesUnchanged ==
    [][last'.op # "addGraphicsEdge" =>
          IF last'.op = "~Edge" /\ ~testMode
          THEN /\ m_sourceNode'
                    = [m_sourceNode EXCEPT !.graphicsEdges = @ \ { ThisEdge }]
               /\ m_targetNode'
                    = [m_targetNode EXCEPT !.graphicsEdges = @ \ { ThisEdge }]
          ELSE NodeState' = NodeState]_vars

\* C17 as the specification states it: no operation of the edge, the
\* destruction included, changes a node.
C17_NodesUnchangedAsStated ==
    [][last'.op # "addGraphicsEdge" => NodeState' = NodeState]_vars

\* An edge that its nodes know has been destroyed in test mode: the nodes
\* still list it.
C17_Witness ==
    /\ lifecycle = "destroyed" /\ last.op = "~Edge"
    /\ testMode
    /\ ThisEdge \in m_sourceNode.graphicsEdges
    /\ ThisEdge \in m_targetNode.graphicsEdges

\* C18: every operation that goes through the label (highlightText outside
\* test mode, translatedLabelBoundingRect, unselectText) runs on an edge that
\* has a label.
C18_SubObjectsChecked ==
    [][( \/ last'.op \in { "translatedLabelBoundingRect", "unselectText" }
         \/ (last'.op = "highlightText" /\ ~testMode) )
          => ~LabelIsNull]_vars

\* C19: in every state a hoverEnterEvent leaves, the timer is not pending,
\* the label is shown, the dummy label hidden, and a second hoverEnterEvent
\* would change nothing; a hoverEnterEvent changes nothing beside the timer
\* and the labels; hoverLeaveEvent leaves the timer pending, pending or not
\* before; the timer fires only when it is pending and is not pending
\* afterwards, and only hoverLeaveEvent makes it pending.
C19_HideTimer ==
    /\ [](m_enableLabel /\ last.op = "hoverEnterEvent" =>
            /\ ~m_labelVisibilityTimer
            /\ StateOf(m_label, m_dummyLabel) = "Visible"
            /\ setLabelVisible(m_label, m_dummyLabel, TRUE, "Focused",
                               m_sourceNode, m_targetNode)
                  = Labels(m_label, m_dummyLabel))
    /\ [][/\ last'.op = "hoverEnterEvent"
               => UNCHANGED << nodeVars, m_edgeModel, m_line, arrowVars, inScene,
                               dotVars >>
          /\ last'.op = "hoverLeaveEvent"
               => m_labelVisibilityTimer' /\ UNCHANGED labelVars
          /\ (m_enableLabel /\ last'.op = "timerTimeout")
               => m_labelVisibilityTimer /\ ~m_labelVisibilityTimer'
          /\ (~m_labelVisibilityTimer /\ m_labelVisibilityTimer')
               => last'.op = "hoverLeaveEvent"]_vars

\* A hoverEnterEvent on an edge whose label has a text and is detached from
\* the edge: an earlier hover entry has shown it already.
C19_Witness ==
    /\ m_enableLabel /\ last.op = "hoverEnterEvent"
    /\ ~m_labelVisibilityTimer
    /\ Len(m_label.text) > 0
    /\ m_label.visible /\ ~m_dummyLabel.visible /\ ~m_label.parentIsEdge
    /\ m_label.hasFocus

\* The item lies with its centre on the centre of the line, up to half a
\* unit of rounding.
CentredOn(item, line) ==
    /\ Abs(2 * item.pos.x + (LabelMargin + CharWidth * Len(item.text))
             - (line.p1.x + line.p2.x)) <= 1
    /\ Abs(2 * item.pos.y + LabelHeight - (line.p1.y + line.p2.y)) <= 1

\* C20: after a recompute the label and the dummy label are centred, each
\* with its own box, on the new segment; their visibility is the one the
\* space rule gives for these positions, whatever it was before; and the
\* shown wings start at an end of the new segment.
C20_RecomputeOrder ==
    [][Recomputed /\ m_enableLabel =>
          /\ CentredOn(m_label', m_line') /\ CentredOn(m_dummyLabel', m_line')
          /\ StateOf(m_label', m_dummyLabel')
                = SpaceState(m_label', m_dummyLabel', m_sourceNode', m_targetNode',
                             m_label'.inScene, inScene')
          /\ m_edgeModel'.arrowMode # "Hidden"
                => /\ m_arrowheadBeginLeft'.visible
                   /\ m_arrowheadBeginLeft'.p1
                        = (IF m_edgeModel'.reversed THEN m_line'.p1 ELSE m_line'.p2)]_vars

\* The nodes have moved after a hover entry had shown the label: the label,
\* detached from the edge, has a text that no longer fits and is hidden, the
\* dummy label is shown.
C20_Witness ==
    /\ m_enableLabel /\ last.op = "nodesMoved"
    /\ ~m_label.parentIsEdge /\ m_label.inScene
    /\ Len(m_label.text) > 0
    /\ CentredOn(m_label, m_line) /\ m_line.p1 # m_line.p2
    /\ StateOf(m_label, m_dummyLabel) = "DummyVisible"

\* ------------------------------------------------------------------------
\* The corner offset in the words of the specification
\* ------------------------------------------------------------------------

\* `endpoint` is `anchor` moved by |amount| on the line through anchor and
\* centre, towards the centre when amount > 0 and away from it when
\* amount < 0, up to the rounding of the fixed-point geometry (2 units).
MovedTowardsCentre(endpoint, anchor, centre, amount) ==
    LET d == PSub(endpoint, anchor)
        c == PSub(centre, anchor)
        a == Abs(amount)
    IN /\ Dot(d, d) <= (a + 2) * (a + 2)
       /\ a > 2 => (a - 2) * (a - 2) <= Dot(d, d)
       /\ amount > 2 => Dot(d, c) > 0
       /\ amount < -2 => Dot(d, c) < 0
       /\ Cross(d, c) * Cross(d, c) <= 4 * Dot(c, c)

\* 0.3 x cornerRadius of a node
CornerNudge(node) == (CornerRadiusScaleTenths * node.cornerRadius) \div 10

\* C21: after a recompute, the end p1 at a source anchor that is a corner is
\* the anchor moved by 0.3 x cornerRadius towards the centre of the source
\* node; the end p2 at a target anchor that is a corner is the anchor moved
\* by 0.3 x cornerRadius towards the centre of the target node and back by
\* the width term 0.5 x edgeWidth.
C21_CornerNudge ==
    [][Recomputed =>
          /\ SourceAnchorIsCorner(m_sourceNode', m_targetNode')
                => MovedTowardsCentre(m_line'.p1,
                                      SourceAnchor(m_sourceNode', m_targetNode'),
                                      m_sourceNode'.pos, CornerNudge(m_sourceNode'))
          /\ TargetAnchorIsCorner(m_sourceNode', m_targetNode')
                => MovedTowardsCentre(m_line'.p2,
                                      TargetAnchor(m_sourceNode', m_targetNode'),
                                      m_targetNode'.pos,
                                      CornerNudge(m_targetNode')
                                        - m_edgeModel'.edgeWidth \div 2)]_vars

\* C21 as the specification states it: the end at a corner anchor is the
\* anchor moved by 0.3 x cornerRadius away from the centre of its node (the
\* end p2 also by the width term, which points away from the centre too).
C21_CornerNudgeAsStated ==
    [][Recomputed =>
          /\ SourceAnchorIsCorner(m_sourceNode', m_targetNode')
                => MovedTowardsCentre(m_line'.p1,
                                      SourceAnchor(m_sourceNode', m_targetNode'),
                                      m_sourceNode'.pos, -CornerNudge(m_sourceNode'))
          /\ TargetAnchorIsCorner(m_sourceNode', m_targetNode')
                => MovedTowardsCentre(m_line'.p2,
                                      TargetAnchor(m_sourceNode', m_targetNode'),
                                      m_targetNode'.pos,
                                      -CornerNudge(m_targetNode')
                                        - m_edgeModel'.edgeWidth \div 2)]_vars

\* A recompute between two rounded nodes that stand diagonally, with the
\* thinnest line: both anchors are corners, p1 lies inside the bounding box
\* of the source node and p2 inside the bounding box of the target node.
C21_Witness ==
    /\ last.op \in { "updateLine", "nodesMoved" }
    /\ m_edgeModel.edgeWidth = 10
    /\ SourceAnchorIsCorner(m_sourceNode, m_targetNode)
    /\ TargetAnchorIsCorner(m_sourceNode, m_targetNode)
    /\ Abs(m_line.p1.x - m_sourceNode.pos.x) < NodeHalf
    /\ Abs(m_line.p1.y - m_sourceNode.pos.y) < NodeHalf
    /\ Abs(m_line.p2.x - m_targetNode.pos.x) < NodeHalf
    /\ Abs(m_line.p2.y - m_targetNode.pos.y) < NodeHalf

\* ------------------------------------------------------------------------
\* The label and the scene
\* ------------------------------------------------------------------------

\* C22: in every state that removeFromScene leaves, the real label is a child
\* of the edge and out of the scene with it, whatever hover and focus events
\* went before; and a label is never in the scene while its edge is not.
C22_LabelRestored ==
    /\ last.op = "removeFromScene"
          => ~inScene /\ m_label.parentIsEdge /\ ~m_label.inScene
    /\ ~inScene => ~m_label.inScene

\* removeFromScene has taken an edge out of the scene whose label a Focused
\* transition had detached from it.
C22_Witness ==
    /\ last.op = "removeFromScene" /\ last.labelRestored
    /\ m_label.parentIsEdge /\ ~m_label.inScene /\ m_label.visible

\* ------------------------------------------------------------------------
\* The grid in the words of the specification
\* ------------------------------------------------------------------------

\* The multiples of `step` the model can meet.
MultiplesOf(step) == { k * step : k \in -12..12 }

\* The positions snap, snap + step, ... as long as they lie below `limit`.
PositionsBelow(snap, step, limit) ==
    { snap + k * step : k \in { n \in 0..MaxLines :
                                  \A j \in 0..n : snap + j * step < limit } }

\* The lines the specification gives a grid of `size` over `rect`.
GridLinesBySpec(size, rect) ==
    LET snap == snapToGrid(size, Pt(rect.left, rect.top))
        step == size * UnitsPerPixel
    IN { QLineF(Pt(x, rect.top), Pt(x, Bottom(rect))) :
            x \in PositionsBelow(snap.x, step, Right(rect)) }
       \cup { QLineF(Pt(rect.left, y), Pt(Right(rect), y)) :
                y \in PositionsBelow(snap.y, step, Bottom(rect)) }

Returned == gridPc = "idle" /\ gridLast.op = "calculateLines"

\* The lines a call of calculateLines has returned are those of the
\* specification and no others, whatever lines the call before had left.
ReturnedLinesBySpec ==
    Returned =>
       /\ gridLast.size = 0 => m_lines = << >>
       /\ gridLast.size # 0 =>
             /\ { m_lines[i] : i \in 1..Len(m_lines) }
                   = GridLinesBySpec(gridLast.size, gridRect)
             /\ \A i, j \in 1..Len(m_lines) : i # j => m_lines[i] # m_lines[j]

\* A turn of a loop of calculateLines that draws a line brings x (or y)
\* nearer to the edge of the rectangle at which the loop ends.
LoopApproachesItsEnd ==
    gridPc # "idle" /\ gridPc' = gridPc /\ Len(m_lines') > Len(m_lines)
       => gridX' > gridX

\* C23: every call of calculateLines returns, for every grid size and every
\* rectangle: each turn of its loops brings the loop nearer to its end, and
\* a call that has begun comes to its return; with size 0 it returns no
\* lines, and otherwise the vertical lines at snap(left), snap(left) + size,
\* ... below the right edge and the horizontal lines likewise below the
\* bottom edge, in place of the lines of the call before.
C23_CalculateLines ==
    /\ []ReturnedLinesBySpec
    /\ [][LoopApproachesItsEnd]_vars
    /\ (gridPc # "idle") ~> (gridPc = "idle")

\* The calls of calculateLines with a grid size of 0 or more return, and
\* the bound on the lines stops none of them.
CalculateLinesReturnsForSizeFrom0 ==
    /\ [](m_size >= 0 /\ gridPc # "idle" => Len(m_lines) < MaxLines)
    /\ [][m_size >= 0 => LoopApproachesItsEnd]_vars
    /\ (m_size >= 0 /\ gridPc # "idle") ~> (gridPc = "idle")

\* A call with a negative size whose loop runs away from the right edge.
RunsAway ==
    /\ gridPc = "vertical" /\ m_size < 0
    /\ gridX < Right(gridRect) /\ Len(m_lines) = MaxLines

\* `out` is a multiple of `step` (step # 0) and no multiple of step is nearer
\* to `in`: out is at most half a step away from in.
NearestMultiple(out, in, step) ==
    /\ out \in MultiplesOf(step)
    /\ 2 * Abs(out - in) <= Abs(step)
    /\ \A m \in MultiplesOf(step) : Abs(out - in) <= Abs(m - in)

\* C24: snapToGrid returns its input when the grid size is 0; with any other
\* size each coordinate of the result is the multiple of the size nearest to
\* the coordinate of the input, at most half a size away; and snapping the
\* result again returns the result.
C24_SnapToGrid ==
    gridLast.op = "snapToGrid" =>
       LET step == gridLast.size * UnitsPerPixel
       IN /\ gridLast.size = 0 => gridLast.out = gridLast.in
          /\ gridLast.size # 0 =>
                /\ NearestMultiple(gridLast.out.x, gridLast.in.x, step)
                /\ NearestMultiple(gridLast.out.y, gridLast.in.y, step)
          /\ snapToGrid(gridLast.size, gridLast.out) = gridLast.out

\* A point half a grid size from two multiples, snapped to the one further
\* from 0 in x, and a point below 0 snapped in y.
C24_Witness ==
    /\ gridLast.op = "snapToGrid" /\ gridLast.size = 3
    /\ gridLast.in = Pt(15, -16) /\ gridLast.out = Pt(30, -30)

\* ------------------------------------------------------------------------
\* The round trip of the serializer in the words of the specification
\* ------------------------------------------------------------------------

\* A coordinate cut off to 1/1000 of a unit.
TruncatedToMilli(coordinate) ==
    IF coordinate >= 0
    THEN coordinate - (coordinate % UnitsPerMilli)
    ELSE -((-coordinate) - ((-coordinate) % UnitsPerMilli))

\* `copy` is `node` with its location cut off to 1/1000 of a unit.
SameNodeTruncated(copy, node) ==
    /\ copy.index = node.index
    /\ copy.text = node.text
    /\ copy.location = Pt(TruncatedToMilli(node.location.x),
                          TruncatedToMilli(node.location.y))

\* C25: the graph that fromXml reads from the document that toXml wrote has
\* one node for each node of the mind map and no other, with the same index,
\* the same text and the location cut off to 1/1000 of a unit; and a node
\* element without index is read with index -1, one without coordinates with
\* the location (0, 0).
C25_RoundTrip ==
    data.loaded =>
       /\ data.from.written =>
             /\ \A node \in data.from.source :
                   \E copy \in data.graph : SameNodeTruncated(copy, node)
             /\ \A copy \in data.graph :
                   \E node \in data.from.source : SameNodeTruncated(copy, node)
             /\ Cardinality(data.graph) = Cardinality(data.from.source)
       /\ LET nodeElements == SelectSeq(data.from.root,
                                        LAMBDA e : e.kind = "element" /\ e.name = "node")
          IN /\ Len(data.read) = Len(nodeElements)
             /\ \A i \in 1..Len(nodeElements) :
                   /\ "index" \notin DOMAIN nodeElements[i].attributes
                         => data.read[i].index = -1
                   /\ { "x", "y" } \cap DOMAIN nodeElements[i].attributes = {}
                         => data.read[i].location = Origin

\* fromXml has read the document of a mind map of two nodes whose
\* coordinates lost their last digit on both sides of 0, after the mind map
\* itself went on changing.
C25_Witness ==
    /\ data.loaded /\ data.from.written
    /\ Cardinality(data.graph) = 2
    /\ \E node \in data.from.source :
          /\ node.location = Pt(-15005, 12349) /\ node.text = << "a", "b" >>
          /\ \E copy \in data.graph :
                /\ copy.index = node.index /\ copy.text = node.text
                /\ copy.location = Pt(-15000, 12340)
    /\ m_mindMapData # data.from.source

\* fromXml has read a document from elsewhere with a node element that has
\* neither index nor coordinates.
C25_WitnessForeign ==
    /\ data.loaded /\ ~data.from.written
    /\ \E i \in 1..Len(data.read) :
          data.read[i].index = -1 /\ data.read[i].location = Origin

=============================================================================
